---- MODULE Spec2Model ----
\* A model of qc/check_broken_links.py: link de-duplication, the local file
\* check, the batch scheduler with its thread pool, the rate-limited remote
\* checker (per-domain lock, last-request time, HEAD then GET) and the final
\* report with its categories.
EXTENDS Integers, Sequences, FiniteSets, TLC

\* ------------------------------------------------------------------ bounds
\* Batch size of the concurrent model (the program's is batch_size below).
ModelBatchSize == 2
\* The clock runs for this many ticks (one tick is half a second).
MaxTicks == 2
\* The partition specification splits lists of up to this many URLs.
MaxUrls == 45

\* ------------------------------------------------------- program constants
batch_size == 20
max_workers == 4
\* get_domain_delay's three values, in half seconds: 2.0 s, 3.0 s, 0.5 s.
AcademicDelay == 4
RestrictiveDelay == 6
DefaultDelay == 1
\* status_code is None (a transport failure of every attempt)
None == 0
\* the outcome of a request that raised requests.exceptions.RequestException
Raised == 0

Min(a, b) == IF a < b THEN a ELSE b

\* ------------------------------------------------------------------ inputs
\* The remote URLs of the model. UBad is a href that starts with 'http' and
\* that urlparse rejects (ValueError: Invalid IPv6 URL).
U1 == "http://a.org/1"
U2 == "http://a.org/2"
U3 == "https://dx.doi.org/3"
UBad == "http://["
P1 == "img/p.png"

\* The URLs of the specification of the pool: a dozen pages of two more
\* sites, the fifth of them on the second site.
PoolUrls ==
  << "http://p.org/1", "http://p.org/2", "http://p.org/3", "http://p.org/4",
     "http://q.org/5", "http://p.org/6", "http://p.org/7", "http://p.org/8",
     "http://p.org/9", "http://p.org/10", "http://p.org/11", "http://p.org/12" >>
OnQ == {PoolUrls[5]}
OnP == {PoolUrls[i] : i \in 1..Len(PoolUrls)} \ OnQ

\* A Python str as the sequence of its characters, for the netlocs above.
Chars(s) ==
  CASE s = "a.org" -> <<"a", ".", "o", "r", "g">>
    [] s = "dx.doi.org" -> <<"d", "x", ".", "d", "o", "i", ".", "o", "r", "g">>
    [] s = "p.org" -> <<"p", ".", "o", "r", "g">>
    [] s = "q.org" -> <<"q", ".", "o", "r", "g">>
    [] OTHER -> <<>>

\* needle in hay, for two character sequences
Contains(needle, hay) ==
  \E i \in 0..(Len(hay) - Len(needle)) :
     SubSeq(hay, i + 1, i + Len(needle)) = needle

\* urlparse(url) raises ValueError
UrlparseRaises(url) == url = UBad

\* urlparse(url).netloc
Netloc(url) ==
  CASE url = U1 -> "a.org"
    [] url = U2 -> "a.org"
    [] url = U3 -> "dx.doi.org"
    [] url \in OnP -> "p.org"
    [] url \in OnQ -> "q.org"
    [] OTHER -> ""

\* The two tests are made in the other order.
DelayOfRestrictiveFirst(chars) ==
  IF \/ Contains(<<"o", "e", "d", ".", "c", "o", "m">>, chars)
     \/ Contains(<<"b", "r", "i", "t", "i", "s", "h", "m", "u", "s", "e", "u", "m",
                   ".", "o", "r", "g">>, chars)
  THEN RestrictiveDelay
  ELSE IF \/ Contains(<<"d", "o", "i", ".", "o", "r", "g">>, chars)
          \/ Contains(<<"j", "s", "t", "o", "r", ".", "o", "r", "g">>, chars)
       THEN AcademicDelay
       ELSE DefaultDelay

\* The body of get_domain_delay, on the characters of the domain.
DelayOf(chars) ==
  IF \/ Contains(<<"d", "o", "i", ".", "o", "r", "g">>, chars)
     \/ Contains(<<"j", "s", "t", "o", "r", ".", "o", "r", "g">>, chars)
  THEN AcademicDelay
  ELSE IF \/ Contains(<<"o", "e", "d", ".", "c", "o", "m">>, chars)
          \/ Contains(<<"b", "r", "i", "t", "i", "s", "h", "m", "u", "s", "e", "u", "m",
                        ".", "o", "r", "g">>, chars)
       THEN RestrictiveDelay
       ELSE DefaultDelay

get_domain_delay(domain) == DelayOf(Chars(domain))

\* The HTML files, and the corpora of the model: for each file the list of
\* (link_type, url) that extract_links_from_html found in it. CorpusA has three
\* URLs of two domains, one of them in both files and twice in one; CorpusB
\* has the malformed URL, and a local image in both files; CorpusC has no
\* links at all.
Files == {"f1.html", "f2.html"}
CorpusA ==
  [f \in Files |->
     IF f = "f1.html"
     THEN << <<"link", U1>>, <<"image", U2>> >>
     ELSE << <<"link", U2>>, <<"resource", U3>>, <<"link", U2>> >>]
CorpusB ==
  [f \in Files |->
     IF f = "f1.html"
     THEN << <<"link", UBad>>, <<"link", U1>>, <<"local_image", P1>> >>
     ELSE << <<"image", U2>>, <<"local_image", P1>> >>]
CorpusC == [f \in Files |-> <<>>]
Corpora == {CorpusA, CorpusB, CorpusC}

\* The servers of the model: what the server behind each URL may answer to a
\* HEAD and to a GET (Raised: the request fails in transport). Between them the
\* three servers take every branch of check_url_with_rate_limit.
HeadOutcomes(url) ==
  CASE url = U1 -> {200, 405}
    [] url = U2 -> {404, Raised}
    [] url \in OnP -> {200}
    [] url \in OnQ -> {404}
    [] OTHER -> {406, Raised}
GetOutcomes(url) ==
  CASE url = U1 -> {200, Raised}
    [] url = U2 -> {404, Raised}
    [] OTHER -> {200, 404}

\* response.reason
Reason(status) ==
  CASE status = 200 -> "OK"
    [] status = 404 -> "Not Found"
    [] status = 405 -> "Method Not Allowed"
    [] status = 406 -> "Not Acceptable"
    [] OTHER -> "Unknown"

\* A reason is the sequence of its parts: <<response.reason>> followed by the
\* parts of the text check_url_with_rate_limit appends. The server's own
\* phrases and the exception texts hold none of the appended texts.
WorksSuffix == <<"works with browser headers">>
MaybeSuffix == <<"HEAD only", "may work in browser">>
GetOnlySuffix == <<"GET only">>
ErrorText == "transport error"

\* text in str(reason)
InReason(text, reason) == \E i \in 1..Len(reason) : reason[i] = text

SeqRange(s) == {s[i] : i \in 1..Len(s)}
Perms(S) ==
  {f \in [1..Cardinality(S) -> S] : \A x \in S : \E i \in 1..Cardinality(S) : f[i] = x}

VARIABLES
  now,                  \* time.time(), in half seconds
  all_links,            \* main: filename -> list of (link_type, url)
  main_pc,              \* where main is
  unique_urls, unique_local_files,
  local_file_status, url_status,
  unique_urls_list, url_batches, split_i,
  futures,              \* batch index -> the future and the thread running it
  handled,              \* the futures as_completed has yielded so far
  broken_url_count, completed_batches,
  report_file,          \* the lines of broken_links_report.txt
  broken_links, broken_count, browser_working_count, definitely_broken_count,
  domain_locks,         \* key -> the lock object made for it
  locked,               \* the lock objects that are held
  domain_last_request,
  history,              \* url -> the requests of its check and their outcomes
  check_calls,          \* url -> number of calls of check_url_with_rate_limit
  sent_at,              \* domain -> when the last request to it was sent
  writes,               \* url -> times its check has set domain_last_request
  call_pc,              \* where a function run on its own is: "start", "returned"
  content, extracted,   \* extract_links_from_html: the file read, the list returned
  file_system, asked_path, probes, local_result,  \* check_local_file
  html_files, create_pdf, create_epub, processed, \* process_html_files
  successful_conversions, errors, produced,
  delay_arg, delay_ret,  \* get_domain_delay: the domain given, the delay returned
  checker, events,  \* HTMLWellFormednessChecker: the parser's fields, the tag events fed to it
  checked_files, wf_results, files_with_errors, files_with_warnings, files_ok, exit_code,  \* check_html_wellformedness.main
  sheet, alt_mapping, img_tags, new_img_tags, file_report, file_rewritten,  \* add_alt_text: process_html_file_with_report
  drive_arg, drive_ret, drive_ret_test,  \* extract_google_drive_id_from_url: the argument, what each copy returns
  soup_body, footnotes_section, new_body, section_removed,  \* convert_endnotes_to_footnotes: the document before and after
  report_data, file_stats, total_images, total_matched, summary_written  \* generate_file_summary_report

vars ==
  << now, all_links, main_pc, unique_urls, unique_local_files, local_file_status,
     url_status, unique_urls_list, url_batches, split_i, futures, handled,
     broken_url_count, completed_batches, report_file, broken_links, broken_count,
     browser_working_count, definitely_broken_count, domain_locks,
     locked, domain_last_request, history, check_calls, sent_at, writes,
     call_pc, content, extracted, file_system, asked_path, probes, local_result,
     html_files, create_pdf, create_epub, processed, successful_conversions,
     errors, produced, delay_arg, delay_ret, checker, events, checked_files, wf_results,
     files_with_errors, files_with_warnings, files_ok, exit_code,
     sheet, alt_mapping, img_tags, new_img_tags, file_report,
     file_rewritten, drive_arg, drive_ret, drive_ret_test, soup_body,
     footnotes_section, new_body, section_removed, report_data,
     file_stats, total_images, total_matched, summary_written >>

main_vars ==
  << all_links, main_pc, unique_urls, unique_local_files, local_file_status,
     url_status, unique_urls_list, url_batches, split_i, handled,
     broken_url_count, completed_batches, report_file, broken_links, broken_count,
     browser_working_count, definitely_broken_count >>

pool_vars == << futures, domain_locks, locked, domain_last_request, history, check_calls,
                sent_at, writes >>

\* The state of the functions that main of check_broken_links runs in its
\* phases 1 and 3 when they are looked at on their own, and of the converters'
\* process_html_files.
extract_vars == << content, extracted >>
local_vars == << file_system, asked_path, probes, local_result >>
convert_vars == << html_files, create_pdf, create_epub, processed,
                   successful_conversions, errors, produced >>
delay_vars == << delay_arg, delay_ret >>
checker_vars == << checker, events >>
wellformed_vars == << checked_files, wf_results, files_with_errors, files_with_warnings, files_ok, exit_code >>
alt_vars == << sheet, alt_mapping, img_tags, new_img_tags, file_report, file_rewritten >>
drive_vars == << drive_arg, drive_ret, drive_ret_test >>
footnote_vars == << soup_body, footnotes_section, new_body, section_removed >>
summary_vars == << report_data, file_stats, total_images, total_matched, summary_written >>
tool_vars == << delay_vars, checker_vars, wellformed_vars, alt_vars, drive_vars, 
    footnote_vars, summary_vars >>
delay_others == << checker_vars, wellformed_vars, alt_vars, drive_vars, 
    footnote_vars, summary_vars >>
checker_others == << delay_vars, wellformed_vars, alt_vars, drive_vars, 
    footnote_vars, summary_vars >>
wellformed_others == << delay_vars, checker_vars, alt_vars, drive_vars, 
    footnote_vars, summary_vars >>
alt_others == << delay_vars, checker_vars, wellformed_vars, drive_vars, 
    footnote_vars, summary_vars >>
drive_others == << delay_vars, checker_vars, wellformed_vars, alt_vars, 
    footnote_vars, summary_vars >>
footnote_others == << delay_vars, checker_vars, wellformed_vars, alt_vars, 
    drive_vars, summary_vars >>
summary_others == << delay_vars, checker_vars, wellformed_vars, alt_vars, drive_vars, 
    footnote_vars >>
side_vars == << call_pc, extract_vars, local_vars, convert_vars, tool_vars >>

\* These functions have not been given anything to do.
ExtractIdle == content = [readable |-> FALSE, soup |-> <<>>] /\ extracted = <<>>
LocalIdle ==
  /\ file_system = {}
  /\ asked_path = <<>>
  /\ probes = <<>>
  /\ local_result = <<>>
ConvertIdle ==
  /\ html_files = <<>>
  /\ create_pdf = FALSE
  /\ create_epub = FALSE
  /\ processed = 0
  /\ successful_conversions = 0
  /\ errors = <<>>
  /\ produced = <<>>
DelayIdle == delay_arg = <<>> /\ delay_ret = 0
CheckerIdle == checker = <<>> /\ events = <<>>
WellformedIdle ==
  /\ checked_files = <<>>
  /\ wf_results = <<>>
  /\ files_with_errors = 0
  /\ files_with_warnings = 0
  /\ files_ok = 0
  /\ exit_code = -1
AltIdle ==
  /\ sheet = <<>>
  /\ alt_mapping = <<>>
  /\ img_tags = <<>>
  /\ new_img_tags = <<>>
  /\ file_report = <<>>
  /\ file_rewritten = FALSE
DriveIdle == drive_arg = <<>> /\ drive_ret = <<>> /\ drive_ret_test = <<>>
FootnoteIdle ==
  /\ soup_body = <<>>
  /\ footnotes_section = <<>>
  /\ new_body = <<>>
  /\ section_removed = FALSE
SummaryIdle ==
  /\ report_data = <<>>
  /\ file_stats = <<>>
  /\ total_images = 0
  /\ total_matched = 0
  /\ summary_written = FALSE
ToolsIdle == DelayIdle /\ CheckerIdle /\ WellformedIdle /\ AltIdle /\ DriveIdle /\ 
    FootnoteIdle /\ SummaryIdle
DelayOthersIdle == CheckerIdle /\ WellformedIdle /\ AltIdle /\ DriveIdle /\ 
    FootnoteIdle /\ SummaryIdle
CheckerOthersIdle == DelayIdle /\ WellformedIdle /\ AltIdle /\ DriveIdle /\ 
    FootnoteIdle /\ SummaryIdle
WellformedOthersIdle == DelayIdle /\ CheckerIdle /\ AltIdle /\ DriveIdle /\ 
    FootnoteIdle /\ SummaryIdle
AltOthersIdle == DelayIdle /\ CheckerIdle /\ WellformedIdle /\ DriveIdle /\ 
    FootnoteIdle /\ SummaryIdle
DriveOthersIdle == DelayIdle /\ CheckerIdle /\ WellformedIdle /\ AltIdle /\ 
    FootnoteIdle /\ SummaryIdle
FootnoteOthersIdle == DelayIdle /\ CheckerIdle /\ WellformedIdle /\ AltIdle /\ 
    DriveIdle /\ SummaryIdle
SummaryOthersIdle == DelayIdle /\ CheckerIdle /\ WellformedIdle /\ AltIdle /\ 
    DriveIdle /\ FootnoteIdle

\* The clock starts beyond every delay: time.time() is seconds since 1970, and
\* a domain never asked has last-request time 0.0.
StartTime == RestrictiveDelay

EmptyMap == [x \in {} |-> 0]

\* ------------------------------------------------------------ main, phases
IsLocal(ref) == ref[1] = "local_image"

\* status_code is None or status_code >= 400
IsFailing(status_code) == status_code = None \/ status_code >= 400

\* Every (link_type, url) of every file.
AllRefs == UNION {SeqRange(all_links[f]) : f \in Files}

Init ==
  /\ now = StartTime
  /\ all_links \in Corpora
  /\ main_pc = "phase2"
  /\ unique_urls = {}
  /\ unique_local_files = {}
  /\ local_file_status = EmptyMap
  /\ url_status = EmptyMap
  /\ unique_urls_list = <<>>
  /\ url_batches = <<>>
  /\ split_i = 0
  /\ futures = <<>>
  /\ handled = {}
  /\ broken_url_count = 0
  /\ completed_batches = 0
  /\ report_file = <<>>
  /\ broken_links = EmptyMap
  /\ broken_count = 0
  /\ browser_working_count = 0
  /\ definitely_broken_count = 0
  /\ domain_locks = EmptyMap
  /\ locked = {}
  /\ domain_last_request = EmptyMap
  /\ history = EmptyMap
  /\ check_calls = EmptyMap
  /\ sent_at = EmptyMap
  /\ writes = EmptyMap
  /\ call_pc = "-"
  /\ ExtractIdle
  /\ LocalIdle
  /\ ConvertIdle
  /\ ToolsIdle

\* Phase 2: the two sets of unique targets.
Deduplicate ==
  /\ main_pc = "phase2"
  /\ unique_local_files' = {ref[2] : ref \in {r \in AllRefs : IsLocal(r)}}
  /\ unique_urls' = {ref[2] : ref \in {r \in AllRefs : ~IsLocal(r)}}
  /\ main_pc' = "phase3"
  /\ UNCHANGED << now, all_links, local_file_status, url_status, unique_urls_list,
                  url_batches, split_i, handled, broken_url_count, completed_batches,
                  report_file, broken_links, broken_count, browser_working_count,
                  definitely_broken_count >>
  /\ UNCHANGED pool_vars
  /\ UNCHANGED side_vars

\* The project root is not tried.
check_local_file_no_fallback(in_html, in_root) ==
  IF in_html THEN <<TRUE, "File exists">>
  ELSE <<FALSE, "File not found">>

\* check_local_file, given whether the path exists under html_dir and whether
\* it exists under the project root.
check_local_file(in_html, in_root) ==
  IF in_html THEN <<TRUE, "File exists">>
  ELSE IF in_root THEN <<TRUE, "File exists">>
  ELSE <<FALSE, "File not found">>

\* Phase 3: one iteration of the loop over unique_local_files.
CheckLocal ==
  /\ main_pc = "phase3"
  /\ \E file_path \in unique_local_files \ DOMAIN local_file_status :
       \E in_html \in BOOLEAN, in_root \in BOOLEAN :
          local_file_status' =
            local_file_status @@ (file_path :> check_local_file(in_html, in_root))
  /\ UNCHANGED << now, all_links, main_pc, unique_urls, unique_local_files, url_status,
                  unique_urls_list, url_batches, split_i, handled, broken_url_count,
                  completed_batches, report_file, broken_links, broken_count,
                  browser_working_count, definitely_broken_count >>
  /\ UNCHANGED pool_vars
  /\ UNCHANGED side_vars

\* Phase 4 opens: the progress file is created and the set becomes a list, in
\* an order the set decides.
OpenReport ==
  /\ main_pc = "phase3"
  /\ unique_local_files = DOMAIN local_file_status
  /\ report_file' = << <<"IN PROGRESS">> >>
  /\ unique_urls_list' \in Perms(unique_urls)
  /\ url_batches' = <<>>
  /\ split_i' = 0
  /\ main_pc' = "phase4"
  /\ UNCHANGED << now, all_links, unique_urls, unique_local_files, local_file_status,
                  url_status, handled, broken_url_count, completed_batches,
                  broken_links, broken_count, browser_working_count,
                  definitely_broken_count >>
  /\ UNCHANGED pool_vars
  /\ UNCHANGED side_vars

\* The slice ends one element early.
SplitStepShort(size) ==
  /\ main_pc = "phase4"
  /\ split_i < Len(unique_urls_list)
  /\ url_batches' =
       Append(url_batches,
              SubSeq(unique_urls_list, split_i + 1,
                     Min(split_i + size - 1, Len(unique_urls_list))))
  /\ split_i' = split_i + size
  /\ UNCHANGED << now, all_links, main_pc, unique_urls, unique_local_files,
                  local_file_status, url_status, unique_urls_list, handled,
                  broken_url_count, completed_batches, report_file, broken_links,
                  broken_count, browser_working_count, definitely_broken_count >>
  /\ UNCHANGED pool_vars
  /\ UNCHANGED side_vars

\* One iteration of: for i in range(0, len(unique_urls_list), batch_size).
SplitStep(size) ==
  /\ main_pc = "phase4"
  /\ split_i < Len(unique_urls_list)
  /\ url_batches' =
       Append(url_batches,
              SubSeq(unique_urls_list, split_i + 1,
                     Min(split_i + size, Len(unique_urls_list))))
  /\ split_i' = split_i + size
  /\ UNCHANGED << now, all_links, main_pc, unique_urls, unique_local_files,
                  local_file_status, url_status, unique_urls_list, handled,
                  broken_url_count, completed_batches, report_file, broken_links,
                  broken_count, browser_working_count, definitely_broken_count >>
  /\ UNCHANGED pool_vars
  /\ UNCHANGED side_vars

SplitDone == main_pc = "phase4" /\ split_i >= Len(unique_urls_list)

\* A new future: not started, nothing checked.
\* no lock object
NoLock == 0

\* no worker thread
NoWorker == 0

NewFuture(batch_id) ==
  [batch_id |-> batch_id, state |-> "pending", worker |-> NoWorker, pc |-> "-", idx |-> 1,
   results |-> EmptyMap, lock |-> NoLock, wake |-> 0, head_status |-> 0]

\* The i of the next executor.submit(check_url_batch, batch, i) of the
\* comprehension over enumerate(url_batches).
NextSubmitted == Len(futures)

\* One iteration of the comprehension: executor.submit(check_url_batch, batch, i).
SubmitBatch ==
  /\ SplitDone
  /\ Len(futures) < Len(url_batches)
  /\ futures' = Append(futures, NewFuture(NextSubmitted))
  /\ UNCHANGED << now, domain_locks, locked, domain_last_request, history, check_calls,
                  sent_at, writes >>
  /\ UNCHANGED main_vars
  /\ UNCHANGED side_vars

AllSubmitted == SplitDone /\ Len(futures) = Len(url_batches)

\* --------------------------------------------- the pool and check_url_batch
Batches == 1..Len(futures)
Running == {b \in Batches : futures[b].state = "running"}

\* The urls_batch of future b, and the URL it is checking.
Batch(b) == url_batches[futures[b].batch_id + 1]
Url(b) == Batch(b)[futures[b].idx]

\* dict[key], for a defaultdict: the value, or the default
Get(map, key, default) == IF key \in DOMAIN map THEN map[key] ELSE default

\* map[key] = value
Put(map, key, value) == [k \in DOMAIN map \cup {key} |-> IF k = key THEN value ELSE map[k]]

\* check_url_batch's loop arrives at position idx with these results: either
\* the batch is finished and returns, or check_url_with_rate_limit is called on
\* the next URL, where urlparse raises (the future then holds the exception,
\* and the results so far are lost with the call) or the thread goes for the
\* domain lock.
AtLoop(b, idx, results) ==
  IF idx > Len(Batch(b))
  THEN [NewFuture(futures[b].batch_id) EXCEPT
          !.state = "done", !.idx = idx, !.results = results]
  ELSE IF UrlparseRaises(Batch(b)[idx])
       THEN [NewFuture(futures[b].batch_id) EXCEPT !.state = "raised", !.idx = idx]
       ELSE [NewFuture(futures[b].batch_id) EXCEPT
               !.state = "running", !.worker = futures[b].worker, !.pc = "call",
               !.idx = idx, !.results = results]

\* check_url_with_rate_limit is entered for the URL at position idx, if any.
Called(b, idx) ==
  IF idx > Len(Batch(b))
  THEN check_calls
  ELSE Put(check_calls, Batch(b)[idx], Get(check_calls, Batch(b)[idx], 0) + 1)

\* The threads of ThreadPoolExecutor(max_workers=max_workers), the ones that
\* are running a batch, and the one that takes the next batch: the threads are
\* interchangeable, and the model gives the batch to the idle one of lowest
\* number.
Workers == 1..max_workers
BusyWorkers == {futures[b].worker : b \in Running}
IdleWorker == CHOOSE w \in Workers \ BusyWorkers : \A v \in Workers \ BusyWorkers : w <= v

\* The batch with the worker that runs it, at the start of check_url_batch.
Started(b, worker) ==
  LET future == AtLoop(b, 1, EmptyMap)
  IN [future EXCEPT !.worker = IF future.state = "running" THEN worker ELSE NoWorker]

\* Every batch gets a thread of its own as soon as it is submitted.
StartBatchNoLimit(b) ==
  /\ b \in Batches
  /\ futures[b].state = "pending"
  /\ futures' = [futures EXCEPT ![b] = Started(b, max_workers + b)]
  /\ check_calls' = Called(b, 1)
  /\ UNCHANGED << now, domain_locks, locked, domain_last_request, history, sent_at,
                  writes >>
  /\ UNCHANGED main_vars
  /\ UNCHANGED side_vars

\* A pool thread takes the next batch of the queue: at most max_workers
\* threads exist, and the queue is first in, first out.
StartBatch(b) ==
  /\ b \in Batches
  /\ futures[b].state = "pending"
  /\ \A c \in 1..(b - 1) : futures[c].state # "pending"
  /\ Workers \ BusyWorkers # {}
  /\ futures' = [futures EXCEPT ![b] = Started(b, IdleWorker)]
  /\ check_calls' = Called(b, 1)
  /\ UNCHANGED << now, domain_locks, locked, domain_last_request, history, sent_at,
                  writes >>
  /\ UNCHANGED main_vars
  /\ UNCHANGED side_vars

\* One lock for every domain.
LockKeyGlobal(url) == "*"

\* The key of the lock a check takes: the URL's netloc.
LockKey(url) == Netloc(url)

\* Every call makes a lock of its own.
LockObjectFresh(b, key) == 100 + b

\* domain_locks[key], for defaultdict(threading.Lock): the lock object of the
\* key, made now if the key is new. The lookup, the call of the factory (a
\* built-in) and the store run inside one dictionary access, with no other
\* thread in between.
LockObject(b, key) ==
  IF key \in DOMAIN domain_locks
  THEN domain_locks[key]
  ELSE Cardinality(DOMAIN domain_locks) + 1

\* Lines 138-156: the domain and its delay are worked out and the domain's
\* lock object is looked up.
GetLock(b) ==
  /\ b \in Running
  /\ futures[b].pc = "call"
  /\ domain_locks' = Put(domain_locks, LockKey(Url(b)), LockObject(b, LockKey(Url(b))))
  /\ futures' = [futures EXCEPT ![b].pc = "lock",
                                 ![b].lock = LockObject(b, LockKey(Url(b)))]
  /\ UNCHANGED << now, locked, domain_last_request, history, check_calls, sent_at,
                  writes >>
  /\ UNCHANGED main_vars
  /\ UNCHANGED side_vars

\* The comparison turned around: the thread sleeps only when it need not.
WakeTimeTurned(time_since_last, delay) ==
  IF time_since_last > delay THEN now + (delay - time_since_last) ELSE now

\* Lines 158-160: when the sleep ends, for a thread that read the clock now.
WakeTime(time_since_last, delay) ==
  IF time_since_last < delay THEN now + (delay - time_since_last) ELSE now

\* with domain_locks[domain]: the thread gets the lock when nobody holds it;
\* then the time since the last request is read and the sleep is decided.
AcquireLock(b) ==
  /\ b \in Running
  /\ futures[b].pc = "lock"
  /\ futures[b].lock \notin locked
  /\ locked' = locked \cup {futures[b].lock}
  /\ LET domain == Netloc(Url(b))
         delay == get_domain_delay(domain)
         time_since_last == now - Get(domain_last_request, domain, 0)
     IN /\ domain_last_request' =
             Put(domain_last_request, domain, Get(domain_last_request, domain, 0))
        /\ futures' = [futures EXCEPT ![b].pc = "sleep",
                                        ![b].wake = WakeTime(time_since_last, delay)]
  /\ UNCHANGED << now, domain_locks, history, check_calls, sent_at, writes >>
  /\ UNCHANGED main_vars
  /\ UNCHANGED side_vars

\* the outcome of a request that has not returned yet
InFlight == 0 - 1

\* A request goes out to a domain now.
Sent(domain) == sent_at' = Put(sent_at, domain, now)

\* time.sleep is over: requests.head goes out.
SendHead(b) ==
  /\ b \in Running
  /\ futures[b].pc = "sleep"
  /\ now >= futures[b].wake
  /\ futures' = [futures EXCEPT ![b].pc = "head"]
  /\ history' = Put(history, Url(b), << <<"HEAD", InFlight>> >>)
  /\ Sent(Netloc(Url(b)))
  /\ UNCHANGED << now, domain_locks, locked, domain_last_request, check_calls, writes >>
  /\ UNCHANGED main_vars
  /\ UNCHANGED side_vars

\* The outcome of the last request of a URL's history is filled in.
Answered(url, outcome) ==
  Put(history, url,
      [history[url] EXCEPT ![Len(history[url])] = <<history[url][Len(history[url])][1], outcome>>])

\* check_url_with_rate_limit returns result: the lock is released, the batch
\* stores the result and goes on with its next URL.
Return(b, result) ==
  /\ locked' = locked \ {futures[b].lock}
  /\ UNCHANGED domain_locks
  /\ futures' = [futures EXCEPT
                   ![b] = AtLoop(b, futures[b].idx + 1,
                                 Put(futures[b].results, Url(b), result))]
  /\ check_calls' = Called(b, futures[b].idx + 1)

\* The GET is tried after any error status.
MethodRejectedAnyError(status_code) == status_code >= 400

\* response.status_code in [405, 406]
MethodRejected(status_code) == status_code \in {405, 406}

\* What check_url_with_rate_limit returns when HEAD answered (not 405/406).
HeadResult(status_code) == <<status_code, <<Reason(status_code)>> >>

\* The text for a GET that raised is left out.
RetryResultPlain(head_status, outcome) ==
  IF outcome = Raised
  THEN <<head_status, <<Reason(head_status)>> >>
  ELSE IF outcome = 200
       THEN <<outcome, <<Reason(outcome)>> \o WorksSuffix>>
       ELSE <<outcome, <<Reason(outcome)>> >>

\* What it returns after the GET that follows a 405/406, whose HEAD answered
\* head_status: lines 170-176.
RetryResult(head_status, outcome) ==
  IF outcome = Raised
  THEN <<head_status, <<Reason(head_status)>> \o MaybeSuffix>>
  ELSE IF outcome = 200
       THEN <<outcome, <<Reason(outcome)>> \o WorksSuffix>>
       ELSE <<outcome, <<Reason(outcome)>> >>

\* What it returns after the GET that follows a HEAD that raised: lines 181-188.
FallbackResult(outcome) ==
  IF outcome = Raised
  THEN <<None, <<ErrorText>> >>
  ELSE <<outcome, <<Reason(outcome)>> \o GetOnlySuffix>>

\* domain_last_request[domain] = time.time() was run once more in url's check.
Written(url) == Put(writes, url, Get(writes, url, 0) + 1)

\* The time is recorded only when the fallback GET was answered.
FallbackRecordsIfAnswered(outcome) == outcome # Raised

\* Lines 184 and 187: the fallback records the time of the request both when
\* its GET is answered and when it raises.
FallbackRecords(outcome) == outcome = Raised \/ outcome # Raised

\* requests.head returns or raises: lines 164-168, 178 and 180-183.
HeadResponse(b) ==
  /\ b \in Running
  /\ futures[b].pc = "head"
  /\ \E outcome \in HeadOutcomes(Url(b)) :
       LET url == Url(b)
           domain == Netloc(url)
       IN IF outcome = Raised
          THEN /\ futures' = [futures EXCEPT ![b].pc = "get_fallback"]
               /\ history' = Put(history, url,
                                 Append(Answered(url, outcome)[url], <<"GET", InFlight>>))
               /\ Sent(domain)
               /\ UNCHANGED << domain_locks, locked, domain_last_request, check_calls,
                               writes >>
          ELSE /\ domain_last_request' = Put(domain_last_request, domain, now)
               /\ writes' = Written(url)
               /\ IF MethodRejected(outcome)
                  THEN /\ futures' = [futures EXCEPT ![b].pc = "get_retry",
                                                     ![b].head_status = outcome]
                       /\ history' = Put(history, url,
                                         Append(Answered(url, outcome)[url],
                                                <<"GET", InFlight>>))
                       /\ Sent(domain)
                       /\ UNCHANGED << domain_locks, locked, check_calls >>
                  ELSE /\ Return(b, HeadResult(outcome))
                       /\ history' = Answered(url, outcome)
                       /\ UNCHANGED << sent_at >>
  /\ UNCHANGED now
  /\ UNCHANGED main_vars
  /\ UNCHANGED side_vars

\* The GET after a 405/406 returns or raises: lines 170-176.
RetryResponse(b) ==
  /\ b \in Running
  /\ futures[b].pc = "get_retry"
  /\ \E outcome \in GetOutcomes(Url(b)) :
       /\ Return(b, RetryResult(futures[b].head_status, outcome))
       /\ history' = Answered(Url(b), outcome)
  /\ UNCHANGED << now, domain_last_request, sent_at, writes >>
  /\ UNCHANGED main_vars
  /\ UNCHANGED side_vars

\* The worker counts the broken URL itself, in main's counter.
FallbackResponseCounting(b) ==
  /\ b \in Running
  /\ futures[b].pc = "get_fallback"
  /\ \E outcome \in GetOutcomes(Url(b)) :
       /\ Return(b, FallbackResult(outcome))
       /\ history' = Answered(Url(b), outcome)
       /\ writes' = Written(Url(b))
       /\ broken_url_count' =
            IF IsFailing(FallbackResult(outcome)[1]) THEN broken_url_count + 1
            ELSE broken_url_count
  /\ domain_last_request' = Put(domain_last_request, Netloc(Url(b)), now)
  /\ UNCHANGED << now, sent_at >>
  /\ UNCHANGED << all_links, main_pc, unique_urls, unique_local_files, local_file_status,
                  url_status, unique_urls_list, url_batches, split_i, handled,
                  completed_batches, report_file, broken_links, broken_count,
                  browser_working_count, definitely_broken_count >>
  /\ UNCHANGED side_vars

\* The GET after a HEAD that raised returns or raises: lines 183-188.
FallbackResponse(b) ==
  /\ b \in Running
  /\ futures[b].pc = "get_fallback"
  /\ \E outcome \in GetOutcomes(Url(b)) :
       /\ Return(b, FallbackResult(outcome))
       /\ history' = Answered(Url(b), outcome)
       /\ IF FallbackRecords(outcome)
          THEN /\ domain_last_request' = Put(domain_last_request, Netloc(Url(b)), now)
               /\ writes' = Written(Url(b))
          ELSE UNCHANGED << domain_last_request, writes >>
  /\ UNCHANGED << now, sent_at >>
  /\ UNCHANGED main_vars
  /\ UNCHANGED side_vars

\* Half a second passes.
Tick ==
  /\ now < StartTime + MaxTicks
  /\ \E b \in Batches : futures[b].state \in {"pending", "running"}
  /\ now' = now + 1
  /\ UNCHANGED main_vars
  /\ UNCHANGED pool_vars
  /\ UNCHANGED side_vars

\* ----------------------------------------------- main, the completion loop
\* url_status.update(batch_results)
Update(map, other) ==
  [k \in DOMAIN map \cup DOMAIN other |-> IF k \in DOMAIN other THEN other[k] ELSE map[k]]

\* Every URL of the batch is taken as broken.
BrokenOfAnyStatus(b, batch_results) ==
  SelectSeq(Batch(b), LAMBDA url : url \in DOMAIN batch_results)

\* The URLs of batch b whose result is broken, in the order of the results.
BrokenOf(b, batch_results) ==
  SelectSeq(Batch(b),
            LAMBDA url : url \in DOMAIN batch_results /\ IsFailing(batch_results[url][1]))

\* The lines written for a completed batch: lines 363-370.
ProgressLines(b, batch_results, completed, broken) ==
  [i \in 1..Len(BrokenOf(b, batch_results)) |->
     <<"BROKEN URL", BrokenOf(b, batch_results)[i],
       batch_results[BrokenOf(b, batch_results)[i]]>>]
  \o << <<"Progress", completed, Len(url_batches), broken>> >>

\* One iteration of: for future in as_completed(future_to_batch), with its
\* try and its except.
HandleFuture(b) ==
  /\ AllSubmitted
  /\ b \in Batches \ handled
  /\ futures[b].state \in {"done", "raised"}
  /\ handled' = handled \cup {b}
  /\ IF futures[b].state = "done"
     THEN LET batch_results == futures[b].results
              batch_broken == Len(BrokenOf(b, batch_results))
          IN /\ url_status' = Update(url_status, batch_results)
             /\ broken_url_count' = broken_url_count + batch_broken
             /\ completed_batches' = completed_batches + 1
             /\ report_file' =
                  report_file \o ProgressLines(b, batch_results, completed_batches + 1,
                                               broken_url_count + batch_broken)
     ELSE /\ report_file' = Append(report_file, <<"ERROR", futures[b].batch_id>>)
          /\ UNCHANGED << url_status, broken_url_count, completed_batches >>
  /\ UNCHANGED << now, all_links, main_pc, unique_urls, unique_local_files,
                  local_file_status, unique_urls_list, url_batches, split_i,
                  broken_links, broken_count, browser_working_count,
                  definitely_broken_count >>
  /\ UNCHANGED pool_vars
  /\ UNCHANGED side_vars

AllHandled == AllSubmitted /\ handled = Batches

\* ------------------------------------------------------- main, the report
\* The second test looks for the wrong text.
CategoryWrongText(reason) ==
  IF InReason("works with browser headers", reason) THEN "browser_ok"
  ELSE IF InReason("GET only", reason) THEN "maybe_ok"
  ELSE "broken"

\* Lines 401-409: the category of a failing remote check.
Category(reason) ==
  IF InReason("works with browser headers", reason) THEN "browser_ok"
  ELSE IF InReason("may work in browser", reason) THEN "maybe_ok"
  ELSE "broken"

\* An issue that may work in a browser is in neither of the two counters.
ScanLinkMaybeUncounted(acc, ref) ==
  IF IsLocal(ref)
  THEN IF ~local_file_status[ref[2]][1]
       THEN [acc EXCEPT
               !.file_issues = Append(@, <<ref[1], ref[2], "MISSING",
                                           local_file_status[ref[2]][2], "broken">>),
               !.broken_count = @ + 1,
               !.definitely_broken_count = @ + 1]
       ELSE acc
  ELSE LET status_code == url_status[ref[2]][1]
           reason == url_status[ref[2]][2]
           category == Category(reason)
       IN IF IsFailing(status_code)
          THEN [acc EXCEPT
                  !.file_issues = Append(@, <<ref[1], ref[2], status_code, reason,
                                              category>>),
                  !.broken_count = @ + 1,
                  !.browser_working_count =
                     IF category = "browser_ok" THEN @ + 1 ELSE @,
                  !.definitely_broken_count = IF category = "broken" THEN @ + 1 ELSE @]
          ELSE acc

\* One iteration of the loop over a file's links (lines 390-412), on the
\* counters and the file's issues so far.
ScanLink(acc, ref) ==
  IF IsLocal(ref)
  THEN IF ~local_file_status[ref[2]][1]
       THEN [acc EXCEPT
               !.file_issues = Append(@, <<ref[1], ref[2], "MISSING",
                                           local_file_status[ref[2]][2], "broken">>),
               !.broken_count = @ + 1,
               !.definitely_broken_count = @ + 1]
       ELSE acc
  ELSE LET status_code == url_status[ref[2]][1]
           reason == url_status[ref[2]][2]
           category == Category(reason)
       IN IF IsFailing(status_code)
          THEN [acc EXCEPT
                  !.file_issues = Append(@, <<ref[1], ref[2], status_code, reason,
                                              category>>),
                  !.broken_count = @ + 1,
                  !.browser_working_count =
                     IF category \in {"browser_ok", "maybe_ok"} THEN @ + 1 ELSE @,
                  !.definitely_broken_count = IF category = "broken" THEN @ + 1 ELSE @]
          ELSE acc

RECURSIVE ScanLinks(_, _)
ScanLinks(acc, links) ==
  IF links = <<>> THEN acc ELSE ScanLinks(ScanLink(acc, Head(links)), Tail(links))

\* The loop over all_links.items() (lines 388-415), over the files left.
RECURSIVE ScanFiles(_, _)
ScanFiles(acc, files) ==
  IF files = {} THEN acc
  ELSE LET html_file == CHOOSE f \in files : TRUE
           after == ScanLinks([acc EXCEPT !.file_issues = <<>>], all_links[html_file])
       IN ScanFiles([after EXCEPT
                       !.broken_links =
                          IF after.file_issues # <<>>
                          THEN Put(@, html_file, after.file_issues) ELSE @],
                    files \ {html_file})

\* url_status[url] raises KeyError for some link of some file.
ReportRaises ==
  \E f \in Files : \E i \in 1..Len(all_links[f]) :
     ~IsLocal(all_links[f][i]) /\ all_links[f][i][2] \notin DOMAIN url_status

\* Phase 5: the final report is built and written over the progress file,
\* unless a lookup raises and main ends with the exception.
BuildReport ==
  /\ main_pc = "phase4"
  /\ AllHandled
  /\ IF ReportRaises
     THEN /\ main_pc' = "raised"
          /\ UNCHANGED << report_file, broken_links, broken_count,
                          browser_working_count, definitely_broken_count >>
     ELSE LET r == ScanFiles([file_issues |-> <<>>, broken_links |-> EmptyMap,
                              broken_count |-> 0, browser_working_count |-> 0,
                              definitely_broken_count |-> 0], Files)
          IN /\ main_pc' = "done"
             /\ broken_links' = r.broken_links
             /\ broken_count' = r.broken_count
             /\ browser_working_count' = r.browser_working_count
             /\ definitely_broken_count' = r.definitely_broken_count
             /\ report_file' = << <<"REPORT", r.broken_count, r.definitely_broken_count,
                                   r.browser_working_count>> >>
  /\ UNCHANGED << now, all_links, unique_urls, unique_local_files, local_file_status,
                  url_status, unique_urls_list, url_batches, split_i, handled,
                  broken_url_count, completed_batches >>
  /\ UNCHANGED pool_vars
  /\ UNCHANGED side_vars

\* ------------------------------------------------------- the specification
Next ==
  \/ Deduplicate
  \/ CheckLocal
  \/ OpenReport
  \/ SplitStep(ModelBatchSize)
  \/ SubmitBatch
  \/ \E b \in Batches : StartBatch(b)
  \/ \E b \in Batches : GetLock(b)
  \/ \E b \in Batches : AcquireLock(b)
  \/ \E b \in Batches : SendHead(b)
  \/ \E b \in Batches : HeadResponse(b)
  \/ \E b \in Batches : RetryResponse(b)
  \/ \E b \in Batches : FallbackResponse(b)
  \/ \E b \in Batches : HandleFuture(b)
  \/ BuildReport
  \/ Tick

Spec == Init /\ [][Next]_vars

\* Phase 4 alone, with the program's batch_size: main has a list of n unique
\* URLs (numbered 1..n here), splits it and submits the batches.
PartitionInit ==
  /\ now = StartTime
  /\ all_links = CorpusC
  /\ main_pc = "phase4"
  /\ \E n \in 0..MaxUrls :
       /\ unique_urls = 1..n
       /\ unique_urls_list = [i \in 1..n |-> i]
  /\ unique_local_files = {}
  /\ local_file_status = EmptyMap
  /\ url_status = EmptyMap
  /\ url_batches = <<>>
  /\ split_i = 0
  /\ futures = <<>>
  /\ handled = {}
  /\ broken_url_count = 0
  /\ completed_batches = 0
  /\ report_file = << <<"IN PROGRESS">> >>
  /\ broken_links = EmptyMap
  /\ broken_count = 0
  /\ browser_working_count = 0
  /\ definitely_broken_count = 0
  /\ domain_locks = EmptyMap
  /\ locked = {}
  /\ domain_last_request = EmptyMap
  /\ history = EmptyMap
  /\ check_calls = EmptyMap
  /\ sent_at = EmptyMap
  /\ writes = EmptyMap
  /\ call_pc = "-"
  /\ ExtractIdle
  /\ LocalIdle
  /\ ConvertIdle
  /\ ToolsIdle

PartitionNext ==
  \/ SplitStep(batch_size)
  \/ SubmitBatch

SpecPartition == PartitionInit /\ [][PartitionNext]_vars

\* main of check_broken_links is not run: the state of the specifications
\* that look at one function on its own.
MainIdle ==
  /\ now = StartTime
  /\ all_links = CorpusC
  /\ main_pc = "-"
  /\ unique_urls = {}
  /\ unique_local_files = {}
  /\ local_file_status = EmptyMap
  /\ url_status = EmptyMap
  /\ unique_urls_list = <<>>
  /\ url_batches = <<>>
  /\ split_i = 0
  /\ futures = <<>>
  /\ handled = {}
  /\ broken_url_count = 0
  /\ completed_batches = 0
  /\ report_file = <<>>
  /\ broken_links = EmptyMap
  /\ broken_count = 0
  /\ browser_working_count = 0
  /\ definitely_broken_count = 0
  /\ domain_locks = EmptyMap
  /\ locked = {}
  /\ domain_last_request = EmptyMap
  /\ history = EmptyMap
  /\ check_calls = EmptyMap
  /\ sent_at = EmptyMap
  /\ writes = EmptyMap

\* ------------------------------------------------------- the pool at work
\* The specification of the pool checks this many URLs.
MaxPoolUrls == 9

\* Phase 4 with more batches than workers: main has a list of unique URLs
\* of two sites whose servers answer every HEAD, splits it, submits the
\* batches and handles them as they complete.
PoolInit ==
  /\ now = StartTime
  /\ all_links = CorpusC
  /\ main_pc = "phase4"
  /\ unique_urls = {PoolUrls[i] : i \in 1..Min(MaxPoolUrls, Len(PoolUrls))}
  /\ unique_urls_list = SubSeq(PoolUrls, 1, Min(MaxPoolUrls, Len(PoolUrls)))
  /\ unique_local_files = {}
  /\ local_file_status = EmptyMap
  /\ url_status = EmptyMap
  /\ url_batches = <<>>
  /\ split_i = 0
  /\ futures = <<>>
  /\ handled = {}
  /\ broken_url_count = 0
  /\ completed_batches = 0
  /\ report_file = << <<"IN PROGRESS">> >>
  /\ broken_links = EmptyMap
  /\ broken_count = 0
  /\ browser_working_count = 0
  /\ definitely_broken_count = 0
  /\ domain_locks = EmptyMap
  /\ locked = {}
  /\ domain_last_request = EmptyMap
  /\ history = EmptyMap
  /\ check_calls = EmptyMap
  /\ sent_at = EmptyMap
  /\ writes = EmptyMap
  /\ call_pc = "-"
  /\ ExtractIdle
  /\ LocalIdle
  /\ ConvertIdle
  /\ ToolsIdle

PoolNext ==
  \/ SplitStep(ModelBatchSize)
  \/ SubmitBatch
  \/ \E b \in Batches : StartBatch(b)
  \/ \E b \in Batches : GetLock(b)
  \/ \E b \in Batches : AcquireLock(b)
  \/ \E b \in Batches : SendHead(b)
  \/ \E b \in Batches : HeadResponse(b)
  \/ \E b \in Batches : HandleFuture(b)
  \/ Tick

SpecPool == PoolInit /\ [][PoolNext]_vars

\* ------------------------------------------- extract_links_from_html alone
\* A document has at most this many tags.
MaxTags == 3

\* Attribute values, as the sequences of their characters: an absolute URL, a
\* relative path, a fragment, a data URL and the empty value.
HttpValue == <<"h", "t", "t", "p", ":", "/", "/", "a">>
RelativeValue == <<"p", ".", "p", "n", "g">>
FragmentValue == <<"#", "t">>
DataValue == <<"d", "a", "t", "a", ":", "x">>
EmptyValue == <<>>
AttrValues == {HttpValue, RelativeValue, FragmentValue, DataValue, EmptyValue}

\* The tags of a parsed document: its name, whether it has the attribute the
\* extractor asks for (href of <a> and <link>, src of <img>) and the value of
\* that attribute. <p> stands for every other tag.
Tags ==
  {[name |-> n, has |-> TRUE, value |-> v] : n \in {"a", "img", "link"}, v \in AttrValues}
  \cup {[name |-> n, has |-> FALSE, value |-> EmptyValue] : n \in {"a", "img", "link", "p"}}

RECURSIVE SeqsUpTo(_, _)
SeqsUpTo(S, n) ==
  IF n = 0 THEN {<<>>}
  ELSE SeqsUpTo(S, n - 1) \cup {Append(q, x) : q \in {r \in SeqsUpTo(S, n - 1) : Len(r) = n - 1}, x \in S}

\* s.startswith(prefix)
StartsWith(prefix, s) == Len(s) >= Len(prefix) /\ SubSeq(s, 1, Len(prefix)) = prefix

\* soup.find_all(name, attr=True): the tags of that name that have the
\* attribute, in document order.
find_all(soup, name) == SelectSeq(soup, LAMBDA tag : tag.name = name /\ tag.has)

\* Lines 67-69: what the loop over the anchors appends for one href.
AnchorLinks(href) ==
  IF StartsWith(<<"h", "t", "t", "p">>, href) THEN << <<"link", href>> >> ELSE <<>>

\* The test for data URLs is left out.
ImgLinksNoDataTest(src) ==
  IF StartsWith(<<"h", "t", "t", "p">>, src) THEN << <<"image", src>> >>
  ELSE IF ~StartsWith(<<"#">>, src) THEN << <<"local_image", src>> >>
  ELSE <<>>

\* Lines 73-80: what the loop over the images appends for one src.
ImgLinks(src) ==
  IF StartsWith(<<"h", "t", "t", "p">>, src) THEN << <<"image", src>> >>
  ELSE IF ~StartsWith(<<"#">>, src) /\ ~StartsWith(<<"d", "a", "t", "a", ":">>, src)
       THEN << <<"local_image", src>> >>
  ELSE <<>>

\* Lines 84-86: what the loop over the link tags appends for one href.
ResourceLinks(href) ==
  IF StartsWith(<<"h", "t", "t", "p">>, href) THEN << <<"resource", href>> >> ELSE <<>>

\* One of the three loops, over the tags find_all gave it.
RECURSIVE ExtractLoop(_, _)
ExtractLoop(acc, tags) ==
  IF tags = <<>> THEN acc
  ELSE ExtractLoop(acc \o (CASE Head(tags).name = "a" -> AnchorLinks(Head(tags).value)
                             [] Head(tags).name = "img" -> ImgLinks(Head(tags).value)
                             [] OTHER -> ResourceLinks(Head(tags).value)),
                   Tail(tags))

\* The loop over the images runs first.
extract_links_images_first(file) ==
  IF ~file.readable THEN <<>>
  ELSE ExtractLoop(ExtractLoop(ExtractLoop(<<>>, find_all(file.soup, "img")),
                               find_all(file.soup, "a")),
                   find_all(file.soup, "link"))

\* extract_links_from_html, on a file that can be read (and parsed to soup) or
\* whose reading raises.
extract_links_from_html(file) ==
  IF ~file.readable THEN <<>>
  ELSE ExtractLoop(ExtractLoop(ExtractLoop(<<>>, find_all(file.soup, "a")),
                               find_all(file.soup, "img")),
                   find_all(file.soup, "link"))

ExtractInit ==
  /\ MainIdle
  /\ call_pc = "start"
  /\ content \in {[readable |-> r, soup |-> d] : r \in BOOLEAN, d \in SeqsUpTo(Tags, MaxTags)}
  /\ extracted = <<>>
  /\ LocalIdle
  /\ ConvertIdle
  /\ ToolsIdle

\* extract_links_from_html(file_path) runs and returns.
Extract ==
  /\ call_pc = "start"
  /\ extracted' = extract_links_from_html(content)
  /\ call_pc' = "returned"
  /\ UNCHANGED << content, local_vars, convert_vars, tool_vars >>
  /\ UNCHANGED main_vars
  /\ UNCHANGED pool_vars
  /\ UNCHANGED now

ExtractNext == Extract

SpecExtract == ExtractInit /\ [][ExtractNext]_vars

\* -------------------------------------------------- check_local_file alone
\* A path is its segments, and whether it starts at the root of the file
\* system. html_dir is main's '../html'.
Path(abs, segs) == [abs |-> abs, segs |-> segs]
html_dir == Path(FALSE, <<"..", "html">>)

\* The paths main may ask about: src values that are relative, relative
\* through the parent directory, and absolute.
AskedPaths ==
  {Path(FALSE, <<"p.png">>), Path(FALSE, <<"img", "p.png">>),
   Path(FALSE, <<"..", "img", "p.png">>), Path(TRUE, <<"img", "p.png">>)}

\* The files that may exist, by the path the system resolves them to.
PossibleFiles ==
  {Path(FALSE, <<"..", "html", "p.png">>), Path(FALSE, <<"..", "p.png">>),
   Path(FALSE, <<"..", "html", "img", "p.png">>), Path(FALSE, <<"..", "img", "p.png">>),
   Path(FALSE, <<"..", "..", "img", "p.png">>), Path(TRUE, <<"img", "p.png">>)}

\* os.path.join(a, p): p alone when p is absolute
join(a, p) == IF p.abs THEN p ELSE Path(a.abs, a.segs \o p.segs)

\* os.path.dirname(a)
dirname(a) == Path(a.abs, SubSeq(a.segs, 1, Len(a.segs) - 1))

\* The path the system resolves segs to, after done: '..' leaves the
\* directory reached so far.
RECURSIVE Resolve(_, _)
Resolve(done, segs) ==
  IF segs = <<>> THEN done
  ELSE IF Head(segs) = ".." /\ done # <<>> /\ done[Len(done)] # ".."
       THEN Resolve(SubSeq(done, 1, Len(done) - 1), Tail(segs))
       ELSE Resolve(Append(done, Head(segs)), Tail(segs))

\* os.path.exists(p)
exists(p) == Path(p.abs, Resolve(<<>>, p.segs)) \in file_system

LocalInit ==
  /\ MainIdle
  /\ call_pc = "start"
  /\ ExtractIdle
  /\ file_system \in SUBSET PossibleFiles
  /\ asked_path \in AskedPaths
  /\ probes = <<>>
  /\ local_result = <<>>
  /\ ConvertIdle
  /\ ToolsIdle

\* check_local_file(file_path, html_dir) runs and returns: the path under
\* html_dir is looked up, and the one under the project root only when the
\* first does not exist.
CheckLocalFile ==
  /\ call_pc = "start"
  /\ LET in_html_path == join(html_dir, asked_path)
         project_root == dirname(html_dir)
         in_root_path == join(project_root, asked_path)
     IN /\ local_result' = check_local_file(exists(in_html_path), exists(in_root_path))
        /\ probes' = IF exists(in_html_path) THEN <<in_html_path>>
                     ELSE <<in_html_path, in_root_path>>
  /\ call_pc' = "returned"
  /\ UNCHANGED << file_system, asked_path, extract_vars, convert_vars, tool_vars >>
  /\ UNCHANGED main_vars
  /\ UNCHANGED pool_vars
  /\ UNCHANGED now

LocalNext == CheckLocalFile

SpecLocal == LocalInit /\ [][LocalNext]_vars

\* ------------------------------------ process_html_files of the converters
\* (convert_to_pdf_epub.py and convert_to_pdf_epub_footnotes.py have the same
\* process_html_files.) The directory has at most this many HTML files.
MaxFiles == 3

\* The formats asked for.
Requested ==
  (IF create_pdf THEN {"pdf"} ELSE {}) \cup (IF create_epub THEN {"epub"} ELSE {})

\* The formats made for a file whose preparation went through, given what
\* convert_to_pdf and convert_to_epub returned (they are called only for the
\* formats asked for).
Made(pdf_ok, epub_ok) ==
  (IF create_pdf /\ pdf_ok THEN {"pdf"} ELSE {})
  \cup (IF create_epub /\ epub_ok THEN {"epub"} ELSE {})

\* file_success at the end of the try block.
FileSuccess(pdf_ok, epub_ok) ==
  ~(create_pdf /\ ~pdf_ok) /\ ~(create_epub /\ ~epub_ok)

\* A failed EPUB conversion is not put on the list.
ConversionErrorsPdfOnly(html_file, pdf_ok, epub_ok) ==
  IF create_pdf /\ ~pdf_ok THEN << <<"PDF conversion failed for", html_file>> >> ELSE <<>>

\* What the try block appends to errors for a file it could prepare.
ConversionErrors(html_file, pdf_ok, epub_ok) ==
  (IF create_pdf /\ ~pdf_ok THEN << <<"PDF conversion failed for", html_file>> >> ELSE <<>>)
  \o (IF create_epub /\ ~epub_ok THEN << <<"EPUB conversion failed for", html_file>> >>
      ELSE <<>>)

ConvertInit ==
  /\ MainIdle
  /\ call_pc = "start"
  /\ ExtractIdle
  /\ LocalIdle
  /\ ToolsIdle
  /\ \E n \in 0..MaxFiles : html_files = [i \in 1..n |-> i]
  /\ create_pdf \in BOOLEAN
  /\ create_epub \in BOOLEAN
  /\ processed = 0
  /\ successful_conversions = 0
  /\ errors = <<>>
  /\ produced = <<>>

\* One iteration of the loop over html_files: preparing the file (or writing
\* the prepared copy) raises, or the conversions asked for are run.
ProcessFile ==
  /\ call_pc = "start"
  /\ processed < Len(html_files)
  /\ LET html_file == html_files[processed + 1]
     IN \E prepared \in BOOLEAN, pdf_ok \in BOOLEAN, epub_ok \in BOOLEAN :
          IF ~prepared
          THEN /\ errors' = Append(errors, <<"Error processing", html_file>>)
               /\ produced' = Append(produced, [formats |-> {}, counted |-> FALSE])
               /\ UNCHANGED successful_conversions
          ELSE /\ errors' = errors \o ConversionErrors(html_file, pdf_ok, epub_ok)
               /\ successful_conversions' =
                    IF FileSuccess(pdf_ok, epub_ok) THEN successful_conversions + 1
                    ELSE successful_conversions
               /\ produced' = Append(produced, [formats |-> Made(pdf_ok, epub_ok),
                                                counted |-> FileSuccess(pdf_ok, epub_ok)])
  /\ processed' = processed + 1
  /\ UNCHANGED << call_pc, html_files, create_pdf, create_epub, extract_vars, local_vars,
                  tool_vars >>
  /\ UNCHANGED main_vars
  /\ UNCHANGED pool_vars
  /\ UNCHANGED now

\* return successful_conversions, total_files, errors
ConvertReturn ==
  /\ call_pc = "start"
  /\ processed = Len(html_files)
  /\ call_pc' = "returned"
  /\ UNCHANGED << extract_vars, local_vars, convert_vars, tool_vars >>
  /\ UNCHANGED main_vars
  /\ UNCHANGED pool_vars
  /\ UNCHANGED now

ConvertNext ==
  \/ ProcessFile
  \/ ConvertReturn

SpecConvert == ConvertInit /\ [][ConvertNext]_vars

\* ---------------------------------------------------- get_domain_delay alone
\* A domain is made of at most this many of the pieces below.
MaxParts == 3

\* Pieces of domain names: the four names the function looks for, pieces of
\* them, and other labels.
DomainParts ==
  { <<"d", "o", "i", ".", "o", "r", "g">>,
    <<"j", "s", "t", "o", "r", ".", "o", "r", "g">>,
    <<"o", "e", "d", ".", "c", "o", "m">>,
    <<"b", "r", "i", "t", "i", "s", "h", "m", "u", "s", "e", "u", "m", ".", "o", "r", "g">>,
    <<"d", "o", "i", ".">>, <<"o", "r", "g">>, <<"o", "e", "d">>, <<".", "c", "o", "m">>,
    <<"w", "w", "w", ".">>, <<".">> }

RECURSIVE PartSeqs(_)
PartSeqs(n) ==
  IF n = 0 THEN {<<>>}
  ELSE PartSeqs(n - 1)
       \cup {Append(q, x) : q \in {r \in PartSeqs(n - 1) : Len(r) = n - 1}, x \in DomainParts}

RECURSIVE JoinParts(_)
JoinParts(parts) == IF parts = <<>> THEN <<>> ELSE Head(parts) \o JoinParts(Tail(parts))

DelayInit ==
  /\ MainIdle
  /\ call_pc = "start"
  /\ ExtractIdle
  /\ LocalIdle
  /\ ConvertIdle
  /\ DelayOthersIdle
  /\ delay_arg \in {JoinParts(parts) : parts \in PartSeqs(MaxParts)}
  /\ delay_ret = 0

\* get_domain_delay(domain) runs and returns.
GetDomainDelay ==
  /\ call_pc = "start"
  /\ delay_ret' = DelayOf(delay_arg)
  /\ call_pc' = "returned"
  /\ UNCHANGED << delay_arg, extract_vars, local_vars, convert_vars, delay_others >>
  /\ UNCHANGED main_vars
  /\ UNCHANGED pool_vars
  /\ UNCHANGED now

DelayNext == GetDomainDelay

SpecDelay == DelayInit /\ [][DelayNext]_vars

\* ------------------------------------------- HTMLWellFormednessChecker alone
\* The parser is given at most this many tag events.
MaxEvents == 4

self_closing_tags ==
  { "area", "base", "br", "col", "embed", "hr", "img", "input",
    "link", "meta", "param", "source", "track", "wbr" }

\* The tags of the documents looked at: two ordinary ones, the root and a
\* void one.
TagNames == {"html", "div", "p", "br"}

\* HTMLWellFormednessChecker.__init__ (has_head, has_body and has_title are set
\* the way has_html is and are read only by check_structure's warnings).
NewChecker ==
  [tag_stack |-> <<>>, errors |-> <<>>, warnings |-> <<>>,
   has_html |-> FALSE, has_head |-> FALSE, has_body |-> FALSE, has_title |-> FALSE]

\* An entry of the errors list: which message, about which tag, naming which
\* tags.
Error(kind, tag, unclosed) == [kind |-> kind, tag |-> tag, unclosed |-> unclosed]

handle_starttag(self, tag) ==
  LET seen == [self EXCEPT !.has_html = self.has_html \/ tag = "html",
                           !.has_head = self.has_head \/ tag = "head",
                           !.has_body = self.has_body \/ tag = "body",
                           !.has_title = self.has_title \/ tag = "title"]
  IN IF tag \notin self_closing_tags
     THEN [seen EXCEPT !.tag_stack = Append(self.tag_stack, tag)]
     ELSE seen

\* The last position of the tag in the stack (the tag is in it).
LastIndex(stack, tag) ==
  CHOOSE i \in 1..Len(stack) :
    stack[i] = tag /\ \A j \in (i + 1)..Len(stack) : stack[j] # tag

\* The tags left open below an end tag are dropped without a message.
handle_endtag_silent(self, tag) ==
  IF tag \in self_closing_tags THEN self
  ELSE IF self.tag_stack = <<>>
  THEN [self EXCEPT !.errors = Append(self.errors, Error("no_opening", tag, <<>>))]
  ELSE IF self.tag_stack[Len(self.tag_stack)] = tag
  THEN [self EXCEPT !.tag_stack = SubSeq(self.tag_stack, 1, Len(self.tag_stack) - 1)]
  ELSE IF tag \in SeqRange(self.tag_stack)
  THEN [self EXCEPT !.tag_stack = SubSeq(self.tag_stack, 1, LastIndex(self.tag_stack, tag) - 1)]
  ELSE [self EXCEPT !.errors = Append(self.errors, Error("no_matching", tag, <<>>))]

handle_endtag(self, tag) ==
  IF tag \in self_closing_tags THEN self
  ELSE IF self.tag_stack = <<>>
  THEN [self EXCEPT !.errors = Append(self.errors, Error("no_opening", tag, <<>>))]
  ELSE IF self.tag_stack[Len(self.tag_stack)] = tag
  THEN [self EXCEPT !.tag_stack = SubSeq(self.tag_stack, 1, Len(self.tag_stack) - 1)]
  ELSE IF tag \in SeqRange(self.tag_stack)
  THEN LET idx == LastIndex(self.tag_stack, tag)
           unclosed == SubSeq(self.tag_stack, idx + 1, Len(self.tag_stack))
       IN [self EXCEPT
             !.errors = IF unclosed # <<>>
                        THEN Append(self.errors, Error("unclosed_before", tag, unclosed))
                        ELSE self.errors,
             !.tag_stack = SubSeq(self.tag_stack, 1, idx - 1)]
  ELSE [self EXCEPT !.errors = Append(self.errors, Error("no_matching", tag, <<>>))]

\* check_structure's warnings, in its order.
StructureWarnings(self) ==
  (IF self.has_html THEN <<>> ELSE <<"Missing <html> element">>)
  \o (IF self.has_head THEN <<>> ELSE <<"Missing <head> element">>)
  \o (IF self.has_body THEN <<>> ELSE <<"Missing <body> element">>)
  \o (IF self.has_title THEN <<>> ELSE <<"Missing <title> element">>)

check_structure(self) ==
  [self EXCEPT
     !.warnings = self.warnings \o StructureWarnings(self),
     !.errors = IF self.tag_stack # <<>>
                THEN Append(self.errors, Error("unclosed_at_end", "", self.tag_stack))
                ELSE self.errors]

StartEvent(tag) == [kind |-> "start", tag |-> tag]
EndEvent(tag) == [kind |-> "end", tag |-> tag]

CheckerInit ==
  /\ MainIdle
  /\ call_pc = "start"
  /\ ExtractIdle
  /\ LocalIdle
  /\ ConvertIdle
  /\ CheckerOthersIdle
  /\ checker = NewChecker
  /\ events = <<>>

CheckerUnchanged ==
  /\ UNCHANGED << extract_vars, local_vars, convert_vars, checker_others >>
  /\ UNCHANGED main_vars
  /\ UNCHANGED pool_vars
  /\ UNCHANGED now

\* feed() meets a start tag.
HandleStarttag ==
  /\ call_pc = "start"
  /\ Len(events) < MaxEvents
  /\ \E tag \in TagNames :
       /\ checker' = handle_starttag(checker, tag)
       /\ events' = Append(events, StartEvent(tag))
  /\ UNCHANGED call_pc
  /\ CheckerUnchanged

\* feed() meets an end tag.
HandleEndtag ==
  /\ call_pc = "start"
  /\ Len(events) < MaxEvents
  /\ \E tag \in TagNames :
       /\ checker' = handle_endtag(checker, tag)
       /\ events' = Append(events, EndEvent(tag))
  /\ UNCHANGED call_pc
  /\ CheckerUnchanged

\* The document is over: check_structure runs.
CheckStructure ==
  /\ call_pc = "start"
  /\ checker' = check_structure(checker)
  /\ call_pc' = "returned"
  /\ UNCHANGED events
  /\ CheckerUnchanged

CheckerNext == HandleStarttag \/ HandleEndtag \/ CheckStructure

SpecChecker == CheckerInit /\ [][CheckerNext]_vars

\* ------------------------------------------- check_html_wellformedness.main
\* The html directory holds at most this many files.
MaxDocs == 3

Document(readable, raises, evs) == [readable |-> readable, raises |-> raises, events |-> evs]

\* The files the directory may hold: a complete document, one without a
\* title, one with an unclosed <div>, a lone unclosed <div>, one on which
\* feed() raises, and a file that cannot be read as UTF-8.
Documents ==
  { Document(TRUE, FALSE,
             <<StartEvent("html"), StartEvent("head"), StartEvent("title"), EndEvent("title"),
               EndEvent("head"), StartEvent("body"), EndEvent("body"), EndEvent("html")>>),
    Document(TRUE, FALSE,
             <<StartEvent("html"), StartEvent("head"), EndEvent("head"),
               StartEvent("body"), EndEvent("body"), EndEvent("html")>>),
    Document(TRUE, FALSE,
             <<StartEvent("html"), StartEvent("head"), StartEvent("title"), EndEvent("title"),
               EndEvent("head"), StartEvent("body"), StartEvent("div"), EndEvent("body"),
               EndEvent("html")>>),
    Document(TRUE, FALSE, <<StartEvent("div")>>),
    Document(TRUE, TRUE, <<StartEvent("html")>>),
    Document(FALSE, FALSE, <<>>) }

\* checker.feed(content): the tag events of the content, in order.
RECURSIVE Feed(_, _)
Feed(self, evs) ==
  IF evs = <<>> THEN self
  ELSE Feed(IF Head(evs).kind = "start"
            THEN handle_starttag(self, Head(evs).tag)
            ELSE handle_endtag(self, Head(evs).tag),
            Tail(evs))

check_html_file(file) ==
  IF ~file.readable
  THEN [errors |-> <<Error("encoding", "", <<>>)>>, warnings |-> <<>>,
        status |-> "ENCODING_ERROR"]
  ELSE LET fed == Feed(NewChecker, file.events)
           done == IF file.raises
                   THEN [fed EXCEPT !.errors = Append(fed.errors, Error("critical", "", <<>>))]
                   ELSE check_structure(fed)
       IN [errors |-> done.errors, warnings |-> done.warnings,
           status |-> IF done.errors # <<>> THEN "ERRORS"
                      ELSE IF done.warnings # <<>> THEN "WARNINGS"
                      ELSE "OK"]

\* A status that is none of the three named ones is counted nowhere.
CounterOfNamedOnly(status) ==
  CASE status = "ERRORS" -> "files_with_errors"
    [] status = "WARNINGS" -> "files_with_warnings"
    [] status = "OK" -> "files_ok"
    [] OTHER -> "-"

\* The counter main adds a file of this status to (lines 178-189).
CounterOf(status) ==
  CASE status = "ERRORS" -> "files_with_errors"
    [] status = "WARNINGS" -> "files_with_warnings"
    [] status = "OK" -> "files_ok"
    [] OTHER -> "files_with_errors"

WellformedInit ==
  /\ MainIdle
  /\ call_pc = "start"
  /\ ExtractIdle
  /\ LocalIdle
  /\ ConvertIdle
  /\ WellformedOthersIdle
  /\ checked_files \in SeqsUpTo(Documents, MaxDocs)
  /\ wf_results = <<>>
  /\ files_with_errors = 0
  /\ files_with_warnings = 0
  /\ files_ok = 0
  /\ exit_code = -1

WellformedUnchanged ==
  /\ UNCHANGED << checked_files, extract_vars, local_vars, convert_vars, wellformed_others >>
  /\ UNCHANGED main_vars
  /\ UNCHANGED pool_vars
  /\ UNCHANGED now

\* Lines 157-159: no HTML file was found.
NoHtmlFiles ==
  /\ call_pc = "start"
  /\ checked_files = <<>>
  /\ exit_code' = 1
  /\ call_pc' = "no_files"
  /\ UNCHANGED << wf_results, files_with_errors, files_with_warnings, files_ok >>
  /\ WellformedUnchanged

\* One turn of the loop of lines 174-189.
CheckHtmlFile ==
  /\ call_pc = "start"
  /\ Len(wf_results) < Len(checked_files)
  /\ LET result == check_html_file(checked_files[Len(wf_results) + 1])
         counter == CounterOf(result.status)
     IN /\ wf_results' = Append(wf_results, result)
        /\ files_with_errors' = files_with_errors + (IF counter = "files_with_errors" THEN 1 ELSE 0)
        /\ files_with_warnings' =
             files_with_warnings + (IF counter = "files_with_warnings" THEN 1 ELSE 0)
        /\ files_ok' = files_ok + (IF counter = "files_ok" THEN 1 ELSE 0)
  /\ UNCHANGED << call_pc, exit_code >>
  /\ WellformedUnchanged

\* Lines 191-248: the summary and the report are written and main exits.
WellformedExit ==
  /\ call_pc = "start"
  /\ checked_files # <<>>
  /\ Len(wf_results) = Len(checked_files)
  /\ exit_code' = IF files_with_errors > 0 THEN 1
                  ELSE IF files_with_warnings > 0 THEN 2
                  ELSE 0
  /\ call_pc' = "returned"
  /\ UNCHANGED << wf_results, files_with_errors, files_with_warnings, files_ok >>
  /\ WellformedUnchanged

WellformedNext == NoHtmlFiles \/ CheckHtmlFile \/ WellformedExit

SpecWellformed == WellformedInit /\ [][WellformedNext]_vars

\* ------------------------------- add_alt_text.process_html_file_with_report
\* A file has at most this many img tags.
MaxImgs == 2

\* An attribute of a tag: whether it is there, and its text.
Attr(present, text) == [present |-> present, text |-> text]
NoAttr == Attr(FALSE, <<>>)

\* s.strip()
RECURSIVE Strip(_)
Strip(s) ==
  IF s = <<>> THEN s
  ELSE IF Head(s) = " " THEN Strip(Tail(s))
  ELSE IF s[Len(s)] = " " THEN Strip(SubSeq(s, 1, Len(s) - 1))
  ELSE s

\* s.endswith(suffix)
EndsWith(suffix, s) ==
  Len(s) >= Len(suffix) /\ SubSeq(s, Len(s) - Len(suffix) + 1, Len(s)) = suffix

\* s.split('/')[-1]
RECURSIVE AfterLastSlash(_)
AfterLastSlash(s) ==
  IF \E i \in 1..Len(s) : s[i] = "/" THEN AfterLastSlash(Tail(s)) ELSE s

DropLast(s, n) == SubSeq(s, 1, Len(s) - n)

\* The UUID of an img src; None and '' are both the empty text here, as every
\* user of the result tests it with 'not'.
extract_uuid_from_img_url(img_src) ==
  LET filename == AfterLastSlash(img_src)
  IN IF img_src = <<>> THEN <<>>
     ELSE IF EndsWith(<<".", "j", "p", "g">>, filename) THEN DropLast(filename, 4)
     ELSE IF EndsWith(<<".", "p", "n", "g">>, filename) THEN DropLast(filename, 4)
     ELSE IF EndsWith(<<".", "j", "p", "e", "g">>, filename) THEN DropLast(filename, 5)
     ELSE IF EndsWith(<<".", "g", "i", "f">>, filename) THEN DropLast(filename, 4)
     ELSE IF EndsWith(<<".", "w", "e", "b", "p">>, filename) THEN DropLast(filename, 5)
     ELSE filename

\* The rows of the sheet after the one load_alt_text_mapping skips: the UUID
\* cell and the alt-text cell (an empty cell, read as NaN, is the empty text).
Row(uuid_cell, alt_cell) == [uuid |-> uuid_cell, alt_text |-> alt_cell]

Sheets ==
  { <<>>,
    << Row(<<"u", "1">>, <<"t", "1">>) >>,
    << Row(<<"u", "1">>, <<"t", "1">>), Row(<<" ", "u", "2">>, <<"t", "2", " ">>) >>,
    << Row(<<"u", "1">>, <<" ">>), Row(<<"u", "2">>, <<>>) >>,
    << Row(<<"u", "1">>, <<"t", "1">>), Row(<<"u", "1">>, <<"t", "2">>) >> }

RECURSIVE load_alt_text_mapping(_)
load_alt_text_mapping(rows) ==
  IF rows = <<>> THEN EmptyMap
  ELSE LET before == load_alt_text_mapping(DropLast(rows, 1))
           last == rows[Len(rows)]
       IN IF last.uuid = <<>> \/ last.alt_text = <<>> THEN before
          ELSE Put(before, Strip(last.uuid), Strip(last.alt_text))

\* (img_uuid, alt_text, status); no alt text is the empty text.
find_matching_alt_text(img_src, mapping) ==
  LET img_uuid == extract_uuid_from_img_url(img_src)
  IN IF img_uuid = <<>> THEN [uuid |-> <<>>, alt_text |-> <<>>, status |-> "NO_UUID"]
     ELSE IF img_uuid \in DOMAIN mapping
     THEN [uuid |-> img_uuid, alt_text |-> mapping[img_uuid], status |-> "MATCHED"]
     ELSE [uuid |-> img_uuid, alt_text |-> <<>>, status |-> "UUID_NOT_FOUND"]

\* img.get('src') is true: the attribute is there and not empty.
HasSrc(img) == img.src.present /\ img.src.text # <<>>

\* Lines 176-177: whether the loop sets the alt of this img.
SetsAlt(img, mapping) ==
  LET found == find_matching_alt_text(img.src.text, mapping)
  IN HasSrc(img) /\ found.status = "MATCHED" /\ found.alt_text # <<>>

\* The img after its turn of the loop.
ProcessedImg(img, mapping) ==
  IF SetsAlt(img, mapping)
  THEN [img EXCEPT !.alt = Attr(TRUE, find_matching_alt_text(img.src.text, mapping).alt_text)]
  ELSE img

\* The entry the loop appends for an img that has a src (lines 184-227).
ReportEntry(img, mapping) ==
  LET found == find_matching_alt_text(img.src.text, mapping)
      kept == img.alt.present /\ img.alt.text # <<>>
  IN IF SetsAlt(img, mapping)
     THEN [uuid |-> found.uuid, status |-> "MATCHED", alt_text |-> found.alt_text]
     ELSE IF found.status = "UUID_NOT_FOUND"
     THEN [uuid |-> found.uuid,
           status |-> IF kept THEN "UUID NOT IN SPREADSHEET (kept existing)"
                      ELSE "UUID NOT IN SPREADSHEET (no alt)",
           alt_text |-> IF kept THEN img.alt.text ELSE <<"N", "/", "A">>]
     ELSE [uuid |-> IF found.uuid # <<>> THEN found.uuid
                    ELSE <<"U", "N", "K", "N", "O", "W", "N">>,
           status |-> IF kept THEN "NO MATCH (kept existing)" ELSE "NO MATCH (no alt)",
           alt_text |-> IF kept THEN img.alt.text ELSE <<"N", "/", "A">>]

RECURSIVE ReportOf(_, _)
ReportOf(imgs, mapping) ==
  IF imgs = <<>> THEN <<>>
  ELSE (IF HasSrc(Head(imgs)) THEN <<ReportEntry(Head(imgs), mapping)>> ELSE <<>>)
       \o ReportOf(Tail(imgs), mapping)

ImgSrcs ==
  { NoAttr, Attr(TRUE, <<>>), Attr(TRUE, <<"d", "/", "u", "1", ".", "j", "p", "g">>),
    Attr(TRUE, <<"u", "2", ".", "p", "n", "g">>), Attr(TRUE, <<"d", "/", "u", "3">>) }
ImgAlts == { NoAttr, Attr(TRUE, <<>>), Attr(TRUE, <<"o", "l", "d">>) }
Imgs == {[src |-> s, alt |-> a] : s \in ImgSrcs, a \in ImgAlts}

AltInit ==
  /\ MainIdle
  /\ call_pc = "start"
  /\ ExtractIdle
  /\ LocalIdle
  /\ ConvertIdle
  /\ AltOthersIdle
  /\ sheet \in Sheets
  /\ alt_mapping = <<>>
  /\ img_tags \in SeqsUpTo(Imgs, MaxImgs)
  /\ new_img_tags = <<>>
  /\ file_report = <<>>
  /\ file_rewritten = FALSE

AltUnchanged ==
  /\ UNCHANGED << sheet, img_tags, extract_vars, local_vars, convert_vars, alt_others >>
  /\ UNCHANGED main_vars
  /\ UNCHANGED pool_vars
  /\ UNCHANGED now

\* main loads the mapping (lines 352-353).
LoadAltTextMapping ==
  /\ call_pc = "start"
  /\ alt_mapping' = load_alt_text_mapping(sheet)
  /\ call_pc' = "loaded"
  /\ UNCHANGED << new_img_tags, file_report, file_rewritten >>
  /\ AltUnchanged

\* process_html_file_with_report runs on a file that can be read.
ProcessHtmlFileWithReport ==
  /\ call_pc = "loaded"
  /\ new_img_tags' = [i \in 1..Len(img_tags) |-> ProcessedImg(img_tags[i], alt_mapping)]
  /\ file_report' = ReportOf(img_tags, alt_mapping)
  /\ file_rewritten' = \E i \in 1..Len(img_tags) : SetsAlt(img_tags[i], alt_mapping)
  /\ call_pc' = "returned"
  /\ UNCHANGED alt_mapping
  /\ AltUnchanged

AltNext == LoadAltTextMapping \/ ProcessHtmlFileWithReport

SpecAlt == AltInit /\ [][AltNext]_vars

\* ------------------------------------------ extract_google_drive_id_from_url
\* A URL is made of at most this many of the pieces below.
MaxUrlParts == 4

UrlParts ==
  { <<"i", "d", "=">>, <<"&">>, <<"/">>, <<"?">>, <<"/", "f", "i", "l", "e", "/", "d", "/">>,
    <<"x">>, <<"y", "z">> }

\* The argument: None or NaN (not given), or a text.
Given(text) == [given |-> TRUE, text |-> text]
NotGiven == [given |-> FALSE, text |-> <<>>]

\* What is returned: None, or a text.
NoId == [found |-> FALSE, id |-> <<>>]
Id(text) == [found |-> TRUE, id |-> text]

\* s.find(sub, start): the first index from start (counted from 0) at which
\* sub begins, or -1.
find(s, sub, start) ==
  LET at == {i \in start..(Len(s) - Len(sub)) : SubSeq(s, i + 1, i + Len(sub)) = sub}
  IN IF at = {} THEN -1 ELSE CHOOSE i \in at : \A j \in at : i <= j

\* s[start:end] for 0 <= start <= end <= len(s)
Slice(s, start, end) == SubSeq(s, start + 1, end)

\* 'id=' branch with the slash looked for before the ampersand.
extract_google_drive_id_slash_first(arg) ==
  IF ~arg.given \/ arg.text = <<>> THEN NoId
  ELSE LET url == arg.text
       IN IF find(url, <<"i", "d", "=">>, 0) # -1
          THEN LET start == find(url, <<"i", "d", "=">>, 0) + 3
                   end1 == find(url, <<"/">>, start)
                   end2 == IF end1 = -1 THEN find(url, <<"&">>, start) ELSE end1
                   end == IF end2 = -1 THEN Len(url) ELSE end2
               IN Id(Slice(url, start, end))
          ELSE IF find(url, <<"/", "f", "i", "l", "e", "/", "d", "/">>, 0) # -1
          THEN LET start == find(url, <<"/", "f", "i", "l", "e", "/", "d", "/">>, 0) + 8
                   end1 == find(url, <<"/">>, start)
                   end2 == IF end1 = -1 THEN find(url, <<"?">>, start) ELSE end1
                   end == IF end2 = -1 THEN Len(url) ELSE end2
               IN Id(Slice(url, start, end))
          ELSE NoId

\* The copy in add_alt_text.py.
extract_google_drive_id_from_url(arg) ==
  IF ~arg.given \/ arg.text = <<>> THEN NoId
  ELSE LET url == arg.text
       IN IF find(url, <<"i", "d", "=">>, 0) # -1
          THEN LET start == find(url, <<"i", "d", "=">>, 0) + 3
                   end1 == find(url, <<"&">>, start)
                   end2 == IF end1 = -1 THEN find(url, <<"/">>, start) ELSE end1
                   end == IF end2 = -1 THEN Len(url) ELSE end2
               IN Id(Slice(url, start, end))
          ELSE IF find(url, <<"/", "f", "i", "l", "e", "/", "d", "/">>, 0) # -1
          THEN LET start == find(url, <<"/", "f", "i", "l", "e", "/", "d", "/">>, 0) + 8
                   end1 == find(url, <<"/">>, start)
                   end2 == IF end1 = -1 THEN find(url, <<"?">>, start) ELSE end1
                   end == IF end2 = -1 THEN Len(url) ELSE end2
               IN Id(Slice(url, start, end))
          ELSE NoId

\* The copy in test_url_extraction.py.
test_extract_google_drive_id_from_url(arg) ==
  IF ~arg.given \/ arg.text = <<>> THEN NoId
  ELSE LET url == arg.text
       IN IF find(url, <<"i", "d", "=">>, 0) # -1
          THEN LET start == find(url, <<"i", "d", "=">>, 0) + 3
                   end1 == find(url, <<"&">>, start)
                   end2 == IF end1 = -1 THEN find(url, <<"/">>, start) ELSE end1
                   end == IF end2 = -1 THEN Len(url) ELSE end2
               IN Id(Slice(url, start, end))
          ELSE IF find(url, <<"/", "f", "i", "l", "e", "/", "d", "/">>, 0) # -1
          THEN LET start == find(url, <<"/", "f", "i", "l", "e", "/", "d", "/">>, 0) + 8
                   end1 == find(url, <<"/">>, start)
                   end2 == IF end1 = -1 THEN find(url, <<"?">>, start) ELSE end1
                   end == IF end2 = -1 THEN Len(url) ELSE end2
               IN Id(Slice(url, start, end))
          ELSE NoId

RECURSIVE UrlPartSeqs(_)
UrlPartSeqs(n) ==
  IF n = 0 THEN {<<>>}
  ELSE UrlPartSeqs(n - 1)
       \cup {Append(q, x) : q \in {r \in UrlPartSeqs(n - 1) : Len(r) = n - 1}, x \in UrlParts}

DriveInit ==
  /\ MainIdle
  /\ call_pc = "start"
  /\ ExtractIdle
  /\ LocalIdle
  /\ ConvertIdle
  /\ DriveOthersIdle
  /\ drive_arg \in {NotGiven} \cup {Given(JoinParts(parts)) : parts \in UrlPartSeqs(MaxUrlParts)}
  /\ drive_ret = NoId
  /\ drive_ret_test = NoId

\* Both copies are called with the argument.
ExtractGoogleDriveId ==
  /\ call_pc = "start"
  /\ drive_ret' = extract_google_drive_id_from_url(drive_arg)
  /\ drive_ret_test' = test_extract_google_drive_id_from_url(drive_arg)
  /\ call_pc' = "returned"
  /\ UNCHANGED << drive_arg, extract_vars, local_vars, convert_vars, drive_others >>
  /\ UNCHANGED main_vars
  /\ UNCHANGED pool_vars
  /\ UNCHANGED now

DriveNext == ExtractGoogleDriveId

SpecDrive == DriveInit /\ [][DriveNext]_vars

\* ----------------------------------------------- convert_endnotes_to_footnotes
\* The text has at most this many links, the footnotes section at most this
\* many items.
MaxRefs == 2
MaxNotes == 2

\* A link of the text: whether its class is footnote-ref, its href, and the
\* number its text shows (0: the text is not a number).
Link(cls, href, label) ==
  [kind |-> "a", cls |-> cls, href |-> href, label |-> label,
   call_href |-> 0, call_id |-> 0, content_id |-> 0, number |-> 0, text |-> ""]

\* The span that replaces a reference: the call <a href="#footnote-k"
\* id="footnote-ref-k"> and the content <span id="footnote-k"> with the text.
Container(k, number, text) ==
  [kind |-> "footnote-container", cls |-> TRUE, href |-> <<>>, label |-> 0,
   call_href |-> k, call_id |-> k, content_id |-> k, number |-> number, text |-> text]

Links ==
  { Link(TRUE, <<"#", "f", "n", "1">>, 7), Link(TRUE, <<"#", "f", "n", "2">>, 0),
    Link(FALSE, <<"#", "f", "n", "1">>, 7), Link(TRUE, <<"f", "n", "1">>, 0),
    Link(FALSE, <<"#", "t", "o", "p">>, 0) }

\* An item of the footnotes section: its id (empty: none) and its text
\* without the return links.
Note(id, text) == [id |-> id, text |-> text]
Notes ==
  {Note(id, text) : id \in {<<"f", "n", "1">>, <<"f", "n", "2">>, <<>>}, text \in {"", "A", "B"}}

\* The document has no footnotes section / has one with these items.
NoSection == [present |-> FALSE, items |-> <<>>]
Section(items) == [present |-> TRUE, items |-> items]

\* re.compile(r'^#fn\d+') matches the href.
MatchesFnHref(href) ==
  /\ StartsWith(<<"#", "f", "n">>, href)
  /\ Len(href) >= 4
  /\ href[4] \in {"0", "1", "2", "3", "4", "5", "6", "7", "8", "9"}

\* Lines 215-218: the links taken as footnote references.
IsFootnoteRef(body, link) ==
  IF \E i \in 1..Len(body) : body[i].cls
  THEN link.cls
  ELSE MatchesFnHref(link.href)

\* Lines 248-269: footnotes_content, id -> text.
RECURSIVE FootnotesContent(_)
FootnotesContent(items) ==
  IF items = <<>> THEN EmptyMap
  ELSE LET before == FootnotesContent(SubSeq(items, 1, Len(items) - 1))
           item == items[Len(items)]
       IN IF item.id # <<>> /\ item.text # "" THEN Put(before, item.id, item.text) ELSE before

\* Lines 275-281: the reference is one the loop replaces.
Replaced(body, link, footnotes_content) ==
  /\ IsFootnoteRef(body, link)
  /\ StartsWith(<<"#">>, link.href)
  /\ Tail(link.href) \in DOMAIN footnotes_content

\* Lines 274-311: the loop over the references, up to position n of the
\* text: the text so far and footnote_counter.
RECURSIVE ConvertLoop(_, _, _)
ConvertLoop(body, footnotes_content, n) ==
  IF n = 0 THEN [body |-> <<>>, footnote_counter |-> 1]
  ELSE LET before == ConvertLoop(body, footnotes_content, n - 1)
           link == body[n]
           k == before.footnote_counter
       IN IF Replaced(body, link, footnotes_content)
          THEN [body |-> Append(before.body,
                                Container(k, IF link.label # 0 THEN link.label ELSE k,
                                          footnotes_content[Tail(link.href)])),
                footnote_counter |-> k + 1]
          ELSE [before EXCEPT !.body = Append(before.body, link)]

\* Lines 234-240: the function returns the document as it is.
NothingToConvert(body, section) ==
  \/ ~\E i \in 1..Len(body) : IsFootnoteRef(body, body[i])
  \/ ~section.present

FootnoteInit ==
  /\ MainIdle
  /\ call_pc = "start"
  /\ ExtractIdle
  /\ LocalIdle
  /\ ConvertIdle
  /\ FootnoteOthersIdle
  /\ soup_body \in SeqsUpTo(Links, MaxRefs)
  /\ footnotes_section \in {NoSection} \cup {Section(items) : items \in SeqsUpTo(Notes, MaxNotes)}
  /\ new_body = <<>>
  /\ section_removed = FALSE

\* convert_endnotes_to_footnotes(soup) runs and returns.
ConvertEndnotesToFootnotes ==
  /\ call_pc = "start"
  /\ IF NothingToConvert(soup_body, footnotes_section)
     THEN /\ new_body' = soup_body
          /\ section_removed' = FALSE
     ELSE /\ new_body' = ConvertLoop(soup_body, FootnotesContent(footnotes_section.items),
                                     Len(soup_body)).body
          /\ section_removed' = TRUE
  /\ call_pc' = "returned"
  /\ UNCHANGED << soup_body, footnotes_section, extract_vars, local_vars, convert_vars,
                  footnote_others >>
  /\ UNCHANGED main_vars
  /\ UNCHANGED pool_vars
  /\ UNCHANGED now

FootnoteNext == ConvertEndnotesToFootnotes

SpecFootnote == FootnoteInit /\ [][FootnoteNext]_vars

\* ------------------------------------------------- the run with fair threads
\* time.sleep: half a second of a worker's sleep passes, however late it is.
SleepTick ==
  /\ \E b \in Running : futures[b].pc = "sleep" /\ now < futures[b].wake
  /\ now' = now + 1
  /\ UNCHANGED main_vars
  /\ UNCHANGED pool_vars
  /\ UNCHANGED side_vars

LiveNext == Next \/ SleepTick

\* Every thread that can take a step takes one in the end, every request
\* returns or fails (its timeout), and sleeps end.
SpecLive == Init /\ [][LiveNext]_vars /\ WF_vars(LiveNext)

\* --------------------------------------------- generate_file_summary_report
\* report_data has at most this many entries.
MaxItems == 3

\* An entry of report_data: the file and the status of one img.
Item(filename, status) == [filename |-> filename, status |-> status]
Items ==
  {Item(filename, status) :
     filename \in Files,
     status \in {"MATCHED", "UUID NOT IN SPREADSHEET (no alt)", "ERROR"}}

\* Lines 291-305: file_stats after the loop over the entries.
RECURSIVE FileStats(_)
FileStats(data) ==
  IF data = <<>> THEN EmptyMap
  ELSE LET before == FileStats(SubSeq(data, 1, Len(data) - 1))
           item == data[Len(data)]
           stats == Get(before, item.filename, [matched |-> 0, not_matched |-> 0, total |-> 0])
       IN Put(before, item.filename,
              IF item.status = "MATCHED"
              THEN [stats EXCEPT !.total = @ + 1, !.matched = @ + 1]
              ELSE [stats EXCEPT !.total = @ + 1, !.not_matched = @ + 1])

\* Lines 321-333: the totals after the loop over sorted(file_stats.keys()).
RECURSIVE Totals(_, _)
Totals(stats, files) ==
  IF files = {} THEN [total_images |-> 0, total_matched |-> 0]
  ELSE LET filename == CHOOSE f \in files : TRUE
           rest == Totals(stats, files \ {filename})
       IN [total_images |-> rest.total_images + stats[filename].total,
           total_matched |-> rest.total_matched + stats[filename].matched]

SummaryInit ==
  /\ MainIdle
  /\ call_pc = "start"
  /\ ExtractIdle
  /\ LocalIdle
  /\ ConvertIdle
  /\ SummaryOthersIdle
  /\ report_data \in SeqsUpTo(Items, MaxItems)
  /\ file_stats = EmptyMap
  /\ total_images = 0
  /\ total_matched = 0
  /\ summary_written = FALSE

\* generate_file_summary_report(report_data) runs: it returns with the report
\* written, or the division by total_images on line 337 raises
\* ZeroDivisionError inside the with block.
GenerateFileSummaryReport ==
  /\ call_pc = "start"
  /\ file_stats' = FileStats(report_data)
  /\ LET totals == Totals(FileStats(report_data), DOMAIN FileStats(report_data))
     IN /\ total_images' = totals.total_images
        /\ total_matched' = totals.total_matched
        /\ IF totals.total_images = 0
           THEN call_pc' = "raised" /\ summary_written' = FALSE
           ELSE call_pc' = "returned" /\ summary_written' = TRUE
  /\ UNCHANGED << report_data, extract_vars, local_vars, convert_vars, summary_others >>
  /\ UNCHANGED main_vars
  /\ UNCHANGED pool_vars
  /\ UNCHANGED now

SummaryNext == GenerateFileSummaryReport

SpecSummary == SummaryInit /\ [][SummaryNext]_vars

\* ------------------------------------------------------------- the claims
\* Future b's thread is inside the locked section of
\* check_url_with_rate_limit: sleeping, or waiting for its HEAD or its GET.
InLocked(b) == futures[b].pc \in {"sleep", "head", "get_retry", "get_fallback"}

\* C1: at no time are two worker threads inside the locked section of
\* check_url_with_rate_limit for URLs of the same netloc.
C1_SameDomainSerialized ==
  \A b \in Running : \A c \in Running :
     (b # c /\ InLocked(b) /\ InLocked(c)) => Netloc(Url(b)) # Netloc(Url(c))

\* C1's case: a thread is inside for a domain nobody asked before (its lock
\* was made on this first use) while another thread wants the same domain.
C1_Witness ==
  \E b \in Running : \E c \in Running :
     /\ b # c
     /\ InLocked(b)
     /\ futures[c].pc = "lock"
     /\ Netloc(Url(b)) = Netloc(Url(c))
     /\ futures[b].lock = futures[c].lock
     /\ domain_last_request[Netloc(Url(b))] = 0

\* C2: a check sends its HEAD no earlier than the domain's delay after the
\* last-request time the check before it recorded for the domain.
C2_GapAtLeastDelay ==
  \A b \in Running :
     futures[b].pc = "head" =>
        sent_at[Netloc(Url(b))] >=
           domain_last_request[Netloc(Url(b))] + get_domain_delay(Netloc(Url(b)))

\* C2's case: the domain was checked before, the next check of it had to
\* sleep, and its HEAD is out.
C2_Witness ==
  \E b \in Running :
     /\ futures[b].pc = "head"
     /\ domain_last_request[Netloc(Url(b))] > 0
     /\ futures[b].wake =
          domain_last_request[Netloc(Url(b))] + get_domain_delay(Netloc(Url(b)))
     /\ sent_at[Netloc(Url(b))] = futures[b].wake

\* A request to the domain of url goes out in this step.
RequestSent(url) ==
  Len(Get(history, url, <<>>)) < Len(Get(history', url, <<>>))

\* C3: between any two consecutive requests (HEAD or GET) to the same domain
\* at least get_domain_delay(domain) elapses.
C3_EveryRequestWaits ==
  [][\A url \in {U1, U2, U3} :
       (RequestSent(url) /\ Netloc(url) \in DOMAIN sent_at) =>
          now >= sent_at[Netloc(url)] + get_domain_delay(Netloc(url))]_vars

\* The issues the final report lists for url under html_file.
IssuesFor(html_file, url) ==
  IF html_file \in DOMAIN broken_links
  THEN SelectSeq(broken_links[html_file], LAMBDA issue : issue[2] = url)
  ELSE <<>>

\* How many of html_file's references point to url.
Occurrences(html_file, url) ==
  Cardinality({i \in 1..Len(all_links[html_file]) : all_links[html_file][i][2] = url})

\* The answer to the HEAD of url's check, and to its GET.
HeadOutcome(url) == history[url][1][2]
GetOutcome(url) == history[url][2][2]
GetFailed(url) == GetOutcome(url) = Raised \/ GetOutcome(url) >= 400

\* The final report was written.
ReportDone == main_pc = "done"

\* C4: a URL whose HEAD returns 405 and whose GET returns 200 is classified
\* "browser_ok" in the final report.
C4_BrowserOk ==
  ReportDone =>
    \A f \in Files : \A url \in unique_urls :
       (Occurrences(f, url) > 0 /\ history[url] = << <<"HEAD", 405>>, <<"GET", 200>> >>)
       => /\ IssuesFor(f, url) # <<>>
          /\ \A i \in 1..Len(IssuesFor(f, url)) : IssuesFor(f, url)[i][5] = "browser_ok"

Checked == UNION {DOMAIN futures[b].results : b \in Batches}
ResultOf(url) ==
  futures[CHOOSE b \in Batches : url \in DOMAIN futures[b].results].results[url]

\* Both requests of url's check raised.
BothRaised(url) ==
  Len(history[url]) = 2 /\ HeadOutcome(url) = Raised /\ GetOutcome(url) = Raised

\* C6: a check sends a HEAD first; it sends a GET only after a HEAD answered
\* 405 or 406 or a HEAD that raised, and at most one; its result is (None,
\* error text) exactly when the HEAD and the GET both raised.
C6_HeadThenOptionalGet ==
  /\ \A url \in DOMAIN history :
       /\ Len(history[url]) \in {1, 2}
       /\ history[url][1][1] = "HEAD"
       /\ Len(history[url]) = 2 =>
            /\ history[url][2][1] = "GET"
            /\ HeadOutcome(url) \in {405, 406, Raised}
  /\ \A url \in Checked :
       /\ url \in DOMAIN history
       /\ ResultOf(url)[1] = None <=> BothRaised(url)
       /\ ResultOf(url) = <<None, <<ErrorText>> >> <=> BothRaised(url)

\* C6's case: one check ended with (None, error text) after two failed
\* requests, and another ended after its HEAD alone.
C6_Witness ==
  /\ \E url \in Checked : ResultOf(url) = <<None, <<ErrorText>> >>
  /\ \E url \in Checked : Len(history[url]) = 1

\* The fallback of url's check is exhausted: its GET was sent and failed.
Exhausted(url) == url \in DOMAIN history /\ Len(history[url]) = 2 /\ GetFailed(url)

C8_AggregationComplete ==
  AllHandled =>
    /\ DOMAIN url_status = Checked
    /\ DOMAIN url_status = unique_urls
    /\ \A url \in Checked : url_status[url] = ResultOf(url)

\* The batches in order, one after the other.
RECURSIVE Flatten(_)
Flatten(batches) ==
  IF batches = <<>> THEN <<>> ELSE Head(batches) \o Flatten(Tail(batches))

\* C9: the batches partition the unique URLs into chunks of batch_size: every
\* URL is in exactly one batch, no batch is empty, every batch but the last
\* has exactly batch_size (20) URLs and the last has 1 to 20, and every batch
\* is submitted to the pool exactly once.
C9_FixedSizeChunks ==
  /\ \A k \in 1..Len(url_batches) :
       /\ 1 <= Len(url_batches[k]) /\ Len(url_batches[k]) <= batch_size
       /\ k < Len(url_batches) => Len(url_batches[k]) = batch_size
  /\ SplitDone =>
       /\ \A url \in unique_urls :
            Cardinality({<<k, j>> \in (1..Len(url_batches)) \X (1..batch_size) :
                           j <= Len(url_batches[k]) /\ url_batches[k][j] = url}) = 1
       /\ SeqRange(Flatten(url_batches)) = unique_urls
  /\ \A k \in 1..Len(url_batches) :
       Cardinality({b \in Batches : futures[b].batch_id = k - 1}) <= 1
  /\ AllSubmitted =>
       \A k \in 1..Len(url_batches) :
          Cardinality({b \in Batches : futures[b].batch_id = k - 1}) = 1

\* C9's case: 45 URLs were split into batches of 20, 20 and 5, and all three
\* were submitted.
C9_Witness ==
  /\ AllSubmitted
  /\ Len(url_batches) = 3
  /\ Len(url_batches[1]) = batch_size
  /\ Len(url_batches[3]) = 5

\* C10: each unique remote URL is passed to check_url_with_rate_limit exactly
\* once and each unique local path is checked exactly once, and an entry of
\* url_status or local_file_status, once written, is never changed or removed.
C10_OncePerTarget ==
  /\ [](AllHandled =>
          /\ \A url \in unique_urls : Get(check_calls, url, 0) = 1
          /\ DOMAIN local_file_status = unique_local_files)
  /\ [][/\ \A url \in DOMAIN url_status :
             url \in DOMAIN url_status' /\ url_status'[url] = url_status[url]
        /\ \A file_path \in DOMAIN local_file_status :
             /\ file_path \in DOMAIN local_file_status'
             /\ local_file_status'[file_path] = local_file_status[file_path]]_vars

\* The progress file has the ERROR line of batch batch_id.
ErrorRecorded(batch_id) ==
  \E i \in 1..Len(report_file) : report_file[i] = <<"ERROR", batch_id>>

\* C11: an error never aborts the run: a batch that raised is caught and
\* recorded in the progress file, every unique remote URL is still passed to
\* the checker once all batches are handled, and main does not end with an
\* exception instead of writing the final report.
C11_ErrorsNeverAbort ==
  /\ main_pc = "phase4" =>
       \A b \in handled : futures[b].state = "raised" => ErrorRecorded(futures[b].batch_id)
  /\ AllHandled => \A url \in unique_urls : Get(check_calls, url, 0) >= 1
  /\ main_pc # "raised"

\* extract_links_from_html has returned for a file it could read.
Extracted == call_pc = "returned" /\ content.readable

\* N: the anchor, image and link tags of the document.
CountedTags == {i \in 1..Len(content.soup) : content.soup[i].name \in {"a", "img", "link"}}

\* The type the extractor is to give a tag, "" for a tag it is to leave out.
TypeOf(tag) ==
  LET http == tag.has /\ StartsWith(<<"h", "t", "t", "p">>, tag.value)
  IN CASE tag.name = "a" /\ http -> "link"
       [] tag.name = "img" /\ http -> "image"
       [] /\ tag.name = "img" /\ tag.has /\ ~http
          /\ ~StartsWith(<<"#">>, tag.value)
          /\ ~StartsWith(<<"d", "a", "t", "a", ":">>, tag.value) -> "local_image"
       [] tag.name = "link" /\ http -> "resource"
       [] OTHER -> ""

\* C12: for a document with N anchor, image and link tags the extractor
\* returns exactly N tuples.
C12_OneTuplePerTag == Extracted => Len(extracted) = Cardinality(CountedTags)

\* C12 as amended: the extractor returns one tuple for every anchor, image
\* and link tag that qualifies (an <a> or <link> whose href starts with
\* 'http', an <img> whose src starts with 'http' or with neither '#' nor
\* 'data:') and none for any other tag: at most N tuples, and N only when
\* every one of the N tags qualifies.
C12_OneTuplePerQualifyingTag ==
  Extracted =>
    /\ Len(extracted) = Cardinality({i \in CountedTags : TypeOf(content.soup[i]) # ""})
    /\ Len(extracted) <= Cardinality(CountedTags)
    /\ Len(extracted) = Cardinality(CountedTags) <=>
         \A i \in CountedTags : TypeOf(content.soup[i]) # ""

\* C12's case: a document of three counted tags, of which the one with a data
\* URL and the one without href are left out.
C12_Witness ==
  /\ Extracted
  /\ Cardinality(CountedTags) = 3
  /\ Len(extracted) = 1
  /\ \E i \in CountedTags : content.soup[i].name = "img" /\ content.soup[i].value = DataValue
  /\ \E i \in CountedTags : content.soup[i].name = "a" /\ ~content.soup[i].has

\* The tuples of the tags of one name, in document order.
TuplesOf(names) ==
  LET kept == SelectSeq(content.soup, LAMBDA tag : tag.name \in names /\ TypeOf(tag) # "")
  IN [i \in 1..Len(kept) |-> <<TypeOf(kept[i]), kept[i].value>>]

\* C13: the list returned holds, in this order, a 'link' tuple for every <a
\* href> starting with 'http', an 'image' or 'local_image' tuple for every
\* <img src> (image when it starts with 'http', local_image when it starts
\* with neither 'http', '#' nor 'data:'), and a 'resource' tuple for every
\* <link href> starting with 'http'; each group is in document order and
\* there are no other tuples.
C13_ClassifiedAndOrdered ==
  Extracted => extracted = TuplesOf({"a"}) \o TuplesOf({"img"}) \o TuplesOf({"link"})

\* C13's case: from a document with a <link>, then an <img>, then an <a>, the
\* list returned has the link, then the local image, then the resource.
C13_Witness ==
  /\ Extracted
  /\ Len(content.soup) = 3
  /\ content.soup[1].name = "link" /\ content.soup[2].name = "img"
  /\ content.soup[3].name = "a"
  /\ extracted = << <<"link", HttpValue>>, <<"local_image", RelativeValue>>,
                    <<"resource", HttpValue>> >>

\* The file the asked path names from the directory base (absolute paths
\* name the same file from everywhere) exists.
FoundFrom(base) ==
  IF asked_path.abs THEN asked_path \in file_system
  ELSE Path(FALSE, Resolve(<<>>, base \o asked_path.segs)) \in file_system

\* C14: check_local_file returns (True, "File exists") when the path exists
\* under the HTML directory or, failing that, under its parent directory, and
\* (False, "File not found") only when it exists under neither; it looks
\* under the HTML directory first, and under the parent only after that.
C14_HtmlDirThenRoot ==
  call_pc = "returned" =>
    /\ FoundFrom(<<"..", "html">>) => local_result = <<TRUE, "File exists">>
    /\ FoundFrom(<<"..">>) => local_result = <<TRUE, "File exists">>
    /\ local_result = <<FALSE, "File not found">> <=>
         (~FoundFrom(<<"..", "html">>) /\ ~FoundFrom(<<"..">>))
    /\ local_result[1] \in BOOLEAN
    /\ probes[1] = join(html_dir, asked_path)
    /\ Len(probes) = IF FoundFrom(<<"..", "html">>) THEN 1 ELSE 2
    /\ Len(probes) = 2 => probes[2].segs = IF asked_path.abs THEN asked_path.segs
                                            ELSE <<"..">> \o asked_path.segs

\* C14's case: the file exists under the project root only; it was looked for
\* under the HTML directory, then under the root, and is reported existing.
C14_Witness ==
  /\ call_pc = "returned"
  /\ ~asked_path.abs
  /\ ~FoundFrom(<<"..", "html">>)
  /\ FoundFrom(<<"..">>)
  /\ Len(probes) = 2
  /\ local_result = <<TRUE, "File exists">>

\* The check of url has been started, and it has returned.
CheckStarted(url) == Get(check_calls, url, 0) >= 1
CheckReturned(url) ==
  /\ url \in DOMAIN history
  /\ history[url][Len(history[url])][2] # InFlight
  /\ \A b \in Running : ~(futures[b].pc \in {"call", "lock", "sleep"} /\ Url(b) = url)

\* C15: at most max_workers (4) batches are being executed; each of them is
\* run by one worker thread, no thread runs two; and a batch's URLs are
\* checked in list order, the check of a URL starting only after the check of
\* the one before it has returned.
C15_FixedPoolSequentialBatches ==
  /\ Cardinality(Running) <= max_workers
  /\ \A b \in Batches :
       IF b \in Running
       THEN /\ futures[b].worker \in Workers
            /\ \A c \in Running : c # b => futures[c].worker # futures[b].worker
       ELSE futures[b].worker = NoWorker
  /\ \A b \in Batches : \A j \in 1..Len(Batch(b)) :
       /\ CheckStarted(Batch(b)[j]) <=> (futures[b].state # "pending" /\ j <= futures[b].idx)
       /\ Get(check_calls, Batch(b)[j], 0) <= 1
       /\ (j > 1 /\ CheckStarted(Batch(b)[j])) => CheckReturned(Batch(b)[j - 1])

\* C15's case: five batches were submitted, four are being executed by the
\* four workers, one of these is at its second URL, and the fifth waits.
C15_Witness ==
  /\ Len(futures) = 5
  /\ Cardinality(Running) = max_workers
  /\ {futures[b].worker : b \in Running} = Workers
  /\ futures[5].state = "pending"
  /\ \E b \in Running : futures[b].idx = 2

\* What the main thread aggregates: the result map, the progress counters and
\* the progress file.
aggregate_vars == << url_status, broken_url_count, completed_batches, report_file >>

\* C16: the aggregate result map, the progress counters and the progress file
\* are changed only by steps of the main thread (opening the file, handling
\* one completed future, writing the report), in which no worker moves; a
\* step of a worker changes one future only, and of main's data nothing.
C16_SingleWriter ==
  [][/\ aggregate_vars' # aggregate_vars =>
          /\ futures' = futures
          /\ domain_last_request' = domain_last_request
          /\ \/ main_pc' # main_pc
             \/ \E b \in Batches \ handled :
                   /\ futures[b].state \in {"done", "raised"}
                   /\ handled' = handled \cup {b}
     /\ (futures' # futures /\ Len(futures') = Len(futures)) =>
          /\ aggregate_vars' = aggregate_vars
          /\ main_vars' = main_vars
          /\ Cardinality({b \in Batches : futures'[b] # futures[b]}) = 1
     /\ domain_last_request' # domain_last_request => main_vars' = main_vars]_vars

\* C16's case: main has merged the results of one batch while the worker of
\* another batch is inside a check, holding a domain's lock.
C16_Witness ==
  /\ url_status # EmptyMap
  /\ completed_batches = 1
  /\ \E b \in Running : InLocked(b) /\ futures[b].results # EmptyMap

Max(a, b) == IF a > b THEN a ELSE b

\* Some other worker is inside the locked section for the domain of b's URL.
DomainHeld(b) ==
  \E c \in Running : c # b /\ InLocked(c) /\ Netloc(Url(c)) = Netloc(Url(b))

\* C17: a worker that wants a domain's lock finds it held only when another
\* worker is inside the locked section for that same domain, whatever locks
\* of other domains are held or waited for; and once it has the lock, its
\* request goes out as soon as its own domain's delay has passed.
C17_DomainsIndependent ==
  \A b \in Running :
     /\ (futures[b].pc = "lock" /\ futures[b].lock \in locked) => DomainHeld(b)
     /\ futures[b].pc = "sleep" =>
          futures[b].wake <=
             Max(now, domain_last_request[Netloc(Url(b))]
                        + get_domain_delay(Netloc(Url(b))))

\* C17's case: one worker sleeps with p.org's lock, a second is blocked on
\* that lock, and a third has taken q.org's lock and sent its request.
C17_Witness ==
  \E b \in Running : \E c \in Running : \E d \in Running :
     /\ futures[b].pc = "sleep" /\ Netloc(Url(b)) = "p.org"
     /\ futures[c].pc = "lock" /\ Netloc(Url(c)) = "p.org"
     /\ futures[d].pc = "head" /\ Netloc(Url(d)) = "q.org"

\* Future b's thread holds the lock of the domain of its URL, and nobody else
\* holds it.
HoldsDomainLock(b) ==
  /\ InLocked(b)
  /\ futures[b].lock \in locked
  /\ futures[b].lock = domain_locks[Netloc(Url(b))]
  /\ \A c \in Running : (c # b /\ InLocked(c)) => futures[c].lock # futures[b].lock

\* C18: a check that has returned has set domain_last_request[domain] at
\* least once, whichever way it went (HEAD answered, GET after 405/406, GET
\* after a HEAD that raised, both raised); and each step that reads the
\* domain's time (to decide the sleep) or sets it is a step of a thread that
\* holds the domain's lock.
C18_TimeRecordedUnderLock ==
  /\ [](\A url \in Checked : Get(writes, url, 0) >= 1)
  /\ [][\A b \in Running :
          /\ (futures[b].pc = "lock" /\ futures'[b].pc = "sleep") => HoldsDomainLock(b)'
          /\ Get(writes', Url(b), 0) > Get(writes, Url(b), 0) =>
               /\ HoldsDomainLock(b)
               /\ domain_last_request'[Netloc(Url(b))] = now
          /\ (/\ Netloc(Url(b)) \in DOMAIN domain_last_request
              /\ ~HoldsDomainLock(b)
              /\ \A c \in Running : Netloc(Url(c)) = Netloc(Url(b)) => ~HoldsDomainLock(c))
             => domain_last_request'[Netloc(Url(b))] = domain_last_request[Netloc(Url(b))]
       ]_vars

\* C18's case: checks have returned on each of the four paths: a HEAD that
\* was answered, a GET after 405/406, a GET after a HEAD that raised, and a
\* HEAD and GET that both raised.
C18_Witness ==
  /\ \E url \in Checked : Len(history[url]) = 1 /\ writes[url] = 1
  /\ \E url \in Checked : Len(history[url]) = 2 /\ MethodRejected(HeadOutcome(url))
  /\ \E url \in Checked : BothRaised(url) /\ writes[url] = 1

\* The status code the check of url came to, from the requests it made.
StatusOf(url) ==
  IF Len(history[url]) = 1 THEN HeadResult(HeadOutcome(url))[1]
  ELSE IF MethodRejected(HeadOutcome(url))
       THEN RetryResult(HeadOutcome(url), GetOutcome(url))[1]
       ELSE FallbackResult(GetOutcome(url))[1]

\* The broken URLs of the batches main has handled so far.
BrokenSoFar ==
  {url \in unique_urls :
     /\ \E b \in handled : url \in SeqRange(Batch(b))
     /\ url \in DOMAIN history
     /\ IsFailing(StatusOf(url))}

\* The 'BROKEN URL' lines of the progress file that name url.
BrokenLinesOf(url) ==
  {i \in 1..Len(report_file) : report_file[i][1] = "BROKEN URL" /\ report_file[i][2] = url}

\* C19: right after main has handled a batch, and until the final report
\* replaces the progress file, the file has one 'BROKEN URL' line for each
\* broken URL of the batches handled so far, none for any other URL, and
\* ends with the progress line that counts the batches handled so far.
C19_ProgressPersisted ==
  (main_pc = "phase4" /\ handled # {}) =>
    /\ \A url \in unique_urls :
         Cardinality(BrokenLinesOf(url)) = IF url \in BrokenSoFar THEN 1 ELSE 0
    /\ report_file[Len(report_file)][1] = "Progress"
    /\ report_file[Len(report_file)][2] = Cardinality(handled)

total_files == Len(html_files)

\* The entries of the error list that name the file at position i.
ErrorsOf(i) == {k \in 1..Len(errors) : errors[k][2] = html_files[i]}

\* C20: process_html_files goes through every file whatever fails on the way;
\* each file that failed (preparation raised, PDF or EPUB conversion failed)
\* has an entry in the error list; a file is counted only if every format
\* asked for was made for it; so 0 <= successful_conversions <= total_files,
\* and the error list is not empty when successful_conversions < total_files
\* at the return.
C20_FailuresLoggedNotFatal ==
  /\ Len(produced) = processed
  /\ processed <= total_files
  /\ 0 <= successful_conversions /\ successful_conversions <= total_files
  /\ successful_conversions = Cardinality({i \in 1..processed : produced[i].counted})
  /\ \A i \in 1..processed :
       /\ produced[i].counted => produced[i].formats = Requested
       /\ ~produced[i].counted => ErrorsOf(i) # {}
       /\ produced[i].formats # Requested => ErrorsOf(i) # {}
  /\ successful_conversions < processed => errors # <<>>
  /\ call_pc = "returned" =>
       /\ processed = total_files
       /\ successful_conversions < total_files => errors # <<>>

\* C20's case: of three files, the first could not be prepared, the second
\* lost its EPUB and the third was converted to both formats; the function
\* returned 1 of 3 with two errors.
C20_Witness ==
  /\ call_pc = "returned"
  /\ total_files = 3
  /\ create_pdf /\ create_epub
  /\ produced[1].formats = {} /\ produced[2].formats = {"pdf"}
  /\ produced[3].formats = {"pdf", "epub"}
  /\ successful_conversions = 1
  /\ Len(errors) = 2

\* The text is somewhere in the domain given to get_domain_delay.
InDomain(text) ==
  \E i \in 1..Len(delay_arg) : \E j \in i..Len(delay_arg) : SubSeq(delay_arg, i, j) = text

Academic ==
  \/ InDomain(<<"d", "o", "i", ".", "o", "r", "g">>)
  \/ InDomain(<<"j", "s", "t", "o", "r", ".", "o", "r", "g">>)
Restrictive ==
  \/ InDomain(<<"o", "e", "d", ".", "c", "o", "m">>)
  \/ InDomain(<<"b", "r", "i", "t", "i", "s", "h", "m", "u", "s", "e", "u", "m", ".", "o", "r", "g">>)

\* C21: get_domain_delay returns 2.0 s for a domain that contains 'doi.org'
\* or 'jstor.org', otherwise 3.0 s for one that contains 'oed.com' or
\* 'britishmuseum.org', otherwise 0.5 s; a listed domain gets more than the
\* default, and a domain of both groups gets 2.0 s (delays in half seconds).
C21_DelayByDomain ==
  call_pc = "returned" =>
    /\ Academic => delay_ret = 4
    /\ (~Academic /\ Restrictive) => delay_ret = 6
    /\ (~Academic /\ ~Restrictive) => delay_ret = 1
    /\ (Academic \/ Restrictive) => delay_ret > 1

\* C21's case: a domain that contains both 'oed.com' and 'doi.org' was given
\* and 2.0 s came back.
C21_Witness ==
  /\ call_pc = "returned"
  /\ Academic /\ Restrictive
  /\ delay_ret = 4

\* The events about tags that are not void.
NonVoidEvents == SelectSeq(events, LAMBDA ev : ev.tag \notin self_closing_tags)

\* Properly nested: nothing, or an element (a start tag, a properly nested
\* inside, its end tag) followed by something properly nested.
RECURSIVE ProperlyNested(_)
ProperlyNested(evs) ==
  \/ evs = <<>>
  \/ /\ evs[1].kind = "start"
     /\ \E k \in 2..Len(evs) :
          /\ evs[k] = EndEvent(evs[1].tag)
          /\ ProperlyNested(SubSeq(evs, 2, k - 1))
          /\ ProperlyNested(SubSeq(evs, k + 1, Len(evs)))

NestingErrors ==
  SelectSeq(checker.errors,
            LAMBDA err : err.kind \in {"no_opening", "unclosed_before", "no_matching",
                                       "unclosed_at_end"})

\* C22: after any tag events and check_structure, the checker has no nesting
\* or unclosed-tag error and an empty tag_stack exactly when the events about
\* non-void tags are properly nested; a void tag is never on tag_stack, and
\* the end tag of a void tag changes nothing in the checker.
C22_NestingDetectedExactly ==
  /\ [](call_pc = "returned" =>
          ((NestingErrors = <<>> /\ checker.tag_stack = <<>>)
             <=> ProperlyNested(NonVoidEvents)))
  /\ [](events # <<>> => \A i \in 1..Len(checker.tag_stack) :
                           checker.tag_stack[i] \notin self_closing_tags)
  /\ [][(events' # events /\ events'[Len(events')].kind = "end"
           /\ events'[Len(events')].tag \in self_closing_tags)
          => checker' = checker]_vars

\* C22's case: the tag of an element was closed while an inner element was
\* open, the document ended with nothing on the stack, and the error is there.
C22_Witness ==
  /\ call_pc = "returned"
  /\ events = <<StartEvent("div"), StartEvent("p"), StartEvent("br"), EndEvent("div")>>
  /\ checker.tag_stack = <<>>
  /\ NestingErrors # <<>>

StatusCount(statuses) ==
  Cardinality({i \in 1..Len(wf_results) : wf_results[i].status \in statuses})

\* C23: every checked file has one status (ENCODING_ERROR when it cannot be
\* read, else ERRORS when an error was recorded, else WARNINGS when a warning
\* was recorded, else OK) and is counted in one of files_with_errors,
\* files_with_warnings, files_ok, so they sum to the number of files checked;
\* main exits with 1 if files_with_errors > 0, else 2 if
\* files_with_warnings > 0, else 0.
C23_OneStatusOneCounter ==
  /\ \A i \in 1..Len(wf_results) :
       wf_results[i].status =
         IF ~checked_files[i].readable THEN "ENCODING_ERROR"
         ELSE IF wf_results[i].errors # <<>> THEN "ERRORS"
         ELSE IF wf_results[i].warnings # <<>> THEN "WARNINGS"
         ELSE "OK"
  /\ files_with_errors = StatusCount({"ERRORS", "ENCODING_ERROR"})
  /\ files_with_warnings = StatusCount({"WARNINGS"})
  /\ files_ok = StatusCount({"OK"})
  /\ files_with_errors + files_with_warnings + files_ok = Len(wf_results)
  /\ call_pc = "returned" =>
       /\ Len(wf_results) = Len(checked_files)
       /\ files_with_errors > 0 => exit_code = 1
       /\ (files_with_errors = 0 /\ files_with_warnings > 0) => exit_code = 2
       /\ (files_with_errors = 0 /\ files_with_warnings = 0) => exit_code = 0

\* C23's case: an unreadable file, a file with warnings only and a clean file
\* were checked and main exited with 1.
C23_Witness ==
  /\ call_pc = "returned"
  /\ Len(wf_results) = 3
  /\ wf_results[1].status = "ENCODING_ERROR"
  /\ wf_results[2].status = "WARNINGS"
  /\ wf_results[3].status = "OK"
  /\ exit_code = 1

\* The UUID of the src of the i-th img is a key of the mapping.
UuidIsKey(i) ==
  /\ img_tags[i].src.present
  /\ extract_uuid_from_img_url(img_tags[i].src.text) \in DOMAIN alt_mapping

\* C24: process_html_file_with_report sets an img's alt to the mapped text
\* exactly when the UUID of its src is a key of the mapping and leaves every
\* other img's alt as it was; the file is rewritten only if an img was
\* matched; there is one report entry per img that has a src.
C24_AltSetIffUuidIsKey ==
  call_pc = "returned" =>
    /\ \A i \in 1..Len(img_tags) :
         IF UuidIsKey(i)
         THEN new_img_tags[i].alt
                = Attr(TRUE, alt_mapping[extract_uuid_from_img_url(img_tags[i].src.text)])
         ELSE new_img_tags[i].alt = img_tags[i].alt
    /\ file_rewritten => \E i \in 1..Len(img_tags) : UuidIsKey(i)
    /\ Len(file_report) = Cardinality({i \in 1..Len(img_tags) : HasSrc(img_tags[i])})

\* The text begins at position i of the URL given (positions from 1).
OccursAt(text, i) ==
  /\ i + Len(text) - 1 <= Len(drive_arg.text)
  /\ SubSeq(drive_arg.text, i, i + Len(text) - 1) = text
Occurs(text) == \E i \in 1..Len(drive_arg.text) : OccursAt(text, i)

\* The returned ID is what follows the first occurrence of the marker, up to
\* the next character 'first', or else the next character 'second', or else
\* the end of the URL.
IdFollows(ret, marker, first, second) ==
  \E i \in 1..Len(drive_arg.text) :
    /\ OccursAt(marker, i)
    /\ \A j \in 1..(i - 1) : ~OccursAt(marker, j)
    /\ LET from == i + Len(marker)
           rest == from..Len(drive_arg.text)
           stops == IF \E j \in rest : drive_arg.text[j] = first
                    THEN {j \in rest : drive_arg.text[j] = first}
                    ELSE IF \E j \in rest : drive_arg.text[j] = second
                    THEN {j \in rest : drive_arg.text[j] = second}
                    ELSE {Len(drive_arg.text) + 1}
       IN \E stop \in stops :
            /\ \A j \in stops : stop <= j
            /\ ret = Id(SubSeq(drive_arg.text, from, stop - 1))

\* C25: for a URL with 'id=' extract_google_drive_id_from_url returns what
\* follows the first 'id=' up to the next '&', or else the next '/', or else
\* the end; for a URL without 'id=' but with '/file/d/' what follows
\* '/file/d/' up to the next '/', or else the next '?', or else the end; for
\* a missing or empty URL or one with neither it returns None; and the copy in
\* test_url_extraction.py returns the same as the one in add_alt_text.py.
C25_DriveIdExtracted ==
  call_pc = "returned" =>
    /\ drive_ret_test = drive_ret
    /\ IF ~drive_arg.given \/ drive_arg.text = <<>> THEN drive_ret = NoId
       ELSE IF Occurs(<<"i", "d", "=">>)
       THEN IdFollows(drive_ret, <<"i", "d", "=">>, "&", "/")
       ELSE IF Occurs(<<"/", "f", "i", "l", "e", "/", "d", "/">>)
       THEN IdFollows(drive_ret, <<"/", "f", "i", "l", "e", "/", "d", "/">>, "/", "?")
       ELSE drive_ret = NoId

\* C25's case: '/file/d/id=x/' was given, which has both markers and no '&',
\* and 'x' came back.
C25_Witness ==
  /\ call_pc = "returned"
  /\ drive_arg = Given(<<"/", "f", "i", "l", "e", "/", "d", "/", "i", "d", "=", "x", "/">>)
  /\ drive_ret = Id(<<"x">>)

\* The note with text that the i-th link of the text points to, if there is one:
\* the link is a footnote reference, and an item with text has its target as id.
TargetHasText(i) ==
  /\ IsFootnoteRef(soup_body, soup_body[i])
  /\ StartsWith(<<"#">>, soup_body[i].href)
  /\ \E n \in 1..Len(footnotes_section.items) :
       /\ footnotes_section.items[n].id = Tail(soup_body[i].href)
       /\ footnotes_section.items[n].text # ""

Containers == {i \in 1..Len(new_body) : new_body[i].kind = "footnote-container"}

\* C26: when references and a footnotes section are found, every reference
\* whose note has text is replaced by a container with the call (id
\* footnote-ref-k, href #footnote-k) and the note's text (id footnote-k), k
\* counting 1, 2, 3, ... in document order, and the section is removed only
\* when every note in it that has text has been put in a container; when no
\* reference or no section is found the document is unchanged.
C26_NotesInlinedNotLost ==
  call_pc = "returned" =>
    IF NothingToConvert(soup_body, footnotes_section)
    THEN new_body = soup_body /\ ~section_removed
    ELSE /\ Len(new_body) = Len(soup_body)
         /\ \A i \in 1..Len(soup_body) :
              IF TargetHasText(i)
              THEN /\ new_body[i].kind = "footnote-container"
                   /\ new_body[i].call_id = Cardinality({j \in Containers : j <= i})
                   /\ new_body[i].call_href = new_body[i].call_id
                   /\ new_body[i].content_id = new_body[i].call_id
                   /\ \E n \in 1..Len(footnotes_section.items) :
                        /\ footnotes_section.items[n].id = Tail(soup_body[i].href)
                        /\ footnotes_section.items[n].text = new_body[i].text
              ELSE new_body[i] = soup_body[i]
         /\ section_removed =>
              \A n \in 1..Len(footnotes_section.items) :
                footnotes_section.items[n].text # "" =>
                  \E i \in Containers : new_body[i].text = footnotes_section.items[n].text

\* C27: the parallel phase ends without deadlock: each held lock is held by
\* one worker that is inside check_url_with_rate_limit, a worker holds no more
\* than one, no lock stays held after its worker has left, and in the end
\* every batch has completed, main has handled every future and the final
\* report is written.
C27_TerminatesAndReports ==
  /\ [](/\ \A lock \in locked : \E b \in Running : InLocked(b) /\ futures[b].lock = lock
        /\ Cardinality(locked) <= Cardinality({b \in Running : InLocked(b)}))
  /\ <>(/\ Len(futures) = Len(url_batches)
        /\ handled = Batches
        /\ \A b \in Batches : futures[b].state \in {"done", "raised"}
        /\ locked = {}
        /\ main_pc = "done")

\* The entries of url_status whose status is None or an error code.
FailingEntries ==
  {url \in DOMAIN url_status : url_status[url][1] = None \/ url_status[url][1] >= 400}

\* The batches main has handled without an exception.
HandledWell == {b \in handled : futures[b].state = "done"}

\* C28: after every handled batch, in whatever order the batches complete,
\* broken_url_count is the number of entries of url_status with status None
\* or >= 400, completed_batches is the number of batches handled without an
\* exception and is at most len(url_batches), and neither counter ever
\* decreases.
C28_CountersMatchResults ==
  /\ [](/\ broken_url_count = Cardinality(FailingEntries)
        /\ completed_batches = Cardinality(HandledWell)
        /\ completed_batches <= Len(url_batches))
  /\ [][broken_url_count' >= broken_url_count
        /\ completed_batches' >= completed_batches]_vars

\* C28's case: two batches were handled, the second to complete was handled
\* first, and broken URLs were counted.
C28_Witness ==
  /\ main_pc = "phase4"
  /\ handled = {1, 2}
  /\ completed_batches = 2
  /\ broken_url_count >= 2
  /\ \E i \in 1..Len(report_file) : \E j \in (i + 1)..Len(report_file) :
       /\ report_file[i][1] = "BROKEN URL" /\ report_file[i][2] \in SeqRange(Batch(2))
       /\ report_file[j][1] = "BROKEN URL" /\ report_file[j][2] \in SeqRange(Batch(1))

\* The issues of a file's entry in broken_links that have the category: the
\* group the report lists under the category's heading.
Group(html_file, category) ==
  SelectSeq(broken_links[html_file], LAMBDA issue : issue[5] = category)

\* The references of a file that failed: a local file that is missing, a
\* remote URL whose status is None or an error code.
FailedReferences(html_file) ==
  {i \in 1..Len(all_links[html_file]) :
     LET ref == all_links[html_file][i]
     IN IF ref[1] = "local_image" THEN ~local_file_status[ref[2]][1]
        ELSE url_status[ref[2]][1] = None \/ url_status[ref[2]][1] >= 400}

\* The sum of count[f] over the files.
RECURSIVE SumOver(_, _)
SumOver(files, count) ==
  IF files = {} THEN 0
  ELSE LET f == CHOOSE x \in files : TRUE
       IN count[f] + SumOver(files \ {f}, count)

\* C29: in the final report broken_count = definitely_broken_count +
\* browser_working_count; every issue is in exactly one of the groups
\* definitely broken, works in browser, may work in browser; a file is in
\* broken_links exactly when it has an issue; and there is one issue for each
\* failed reference of each file, so a URL referenced several times counts
\* each time.
C29_SummaryConsistent ==
  ReportDone =>
    /\ broken_count = definitely_broken_count + browser_working_count
    /\ \A f \in DOMAIN broken_links :
         /\ \A i \in 1..Len(broken_links[f]) :
              broken_links[f][i][5] \in {"broken", "browser_ok", "maybe_ok"}
         /\ Len(Group(f, "broken")) + Len(Group(f, "browser_ok")) + Len(Group(f, "maybe_ok"))
              = Len(broken_links[f])
         /\ Len(broken_links[f]) = Cardinality(FailedReferences(f))
    /\ \A f \in Files : f \in DOMAIN broken_links <=> FailedReferences(f) # {}
    /\ broken_count = SumOver(Files, [f \in Files |-> Cardinality(FailedReferences(f))])
    /\ definitely_broken_count
         = SumOver(DOMAIN broken_links,
                   [f \in DOMAIN broken_links |-> Len(Group(f, "broken"))])
    /\ browser_working_count
         = SumOver(DOMAIN broken_links,
                   [f \in DOMAIN broken_links |->
                      Len(Group(f, "browser_ok")) + Len(Group(f, "maybe_ok"))])

\* C29's case: the report counts a failing URL once in one file and twice in
\* the other, which refers to it twice, and has an issue that may work in a
\* browser next to definitely broken ones.
C29_Witness ==
  /\ ReportDone
  /\ \E url \in unique_urls :
       /\ Len(IssuesFor("f1.html", url)) = 1
       /\ Len(IssuesFor("f2.html", url)) = 2
  /\ broken_count >= 4
  /\ browser_working_count >= 1
  /\ definitely_broken_count >= 3

\* C30: generate_file_summary_report ends without raising for every
\* report_data, the empty list included; for every file matched + not_matched
\* = total, and the totals of the files add up to len(report_data).
C30_SummaryNeverRaises ==
  /\ call_pc # "raised"
  /\ call_pc = "returned" =>
       /\ summary_written
       /\ \A filename \in DOMAIN file_stats :
            file_stats[filename].matched + file_stats[filename].not_matched
              = file_stats[filename].total
       /\ total_images = Len(report_data)
       /\ SumOver(DOMAIN file_stats, [f \in DOMAIN file_stats |-> file_stats[f].total])
            = Len(report_data)

====
